# A formal model of Dairycart

Dairycart is an e-commerce server written in Go: a JSON API (`src/api/v1`) in
front of PostgreSQL (`src/storage/v1/database/postgres`).  This directory models
what its handlers do to the database when several of them run at once, when a
statement fails half way and when the process dies; TLC checks the models on small
instances, and TLAPS proves the most important properties of them for any number
of requests and rows.  It also models what comes before the handlers, the start of a
server and the migrations, and for one resource what comes in front of them, the Go
client.

## The system

| component | source | state | operations | how it interacts |
|---|---|---|---|---|
| products | `api/v1/products.go`, `postgres/products.go`, `postgres/product_variant_bridge.go` | `products`, `product_variant_bridge` | POST, PATCH, DELETE `/v1/product`, reads | creation also inserts a root, options, values, images; ends with the webhooks of its event |
| product roots | `api/v1/product_roots.go` | `product_roots` | DELETE `/v1/product_root/{id}`, reads | its deletion archives bridges, values, options and products before the root |
| product options | `api/v1/product_options.go` | `product_options` | POST, PATCH, DELETE, list | hang from a root; deletion archives the values |
| option values | `api/v1/product_option_values.go` | `product_option_values` | POST, PATCH, DELETE | hang from an option; bridged to variants |
| variant builder | `product_options.go:32-81` | none | `buildProductsFromOptions` | called by product creation: one product per combination of values |
| product images | `product_images.go`, `storage/v1/images/local` | `product_images`, `products.primary_image_id`, image files | part of product creation | files are written, and pictures fetched from other hosts, while the transaction is open |
| users and sessions | `users.go`, `postgres/users.go` | `users`, the cookie | register, log in, log out, update, delete | every protected route reads the cookie |
| login throttle | `users.go:235-318`, `postgres/login_attempts.go` | `login_attempts` | check, record | ten failures within fifteen minutes stop a user name |
| password reset tokens | `users.go:380-434`, `postgres/password_reset_tokens.go` | `password_reset_tokens` | request, validate | one open token per user |
| discounts | `discounts.go`, `postgres/discounts.go` | `discounts` | create, read, update, archive | the migrations load the first ones |
| webhooks | `webhooks.go`, `postgres/webhooks.go` | `webhooks` | create, read, update, archive | looked up after product creation, update and deletion commit |
| webhook execution | `webhook_executor.go` | `webhook_execution_logs` | `CallWebhook`, one goroutine per webhook | HTTP to a third party, then a log row |
| query filters and lists | `helpers.go:44-111`, `postgres/main.go:22-59` | none | parse, apply | every list route |
| schema and migrations | `postgres/migrations`, `postgres/migrate.go` | the schema, `schema_migrations`, an advisory lock | ping, migrate | every server that starts migrates; the unique indexes every insert meets |
| start-up | `api/v1/config.go`, `cmd/server/v1` | where `main` is | configure, serve | ends with `log.Fatal` or the listener |
| Go client | `client/v1` | a cookie, a timeout | one request per method | HTTP to the server |

The admin server, the generated mocks, `cmd/gen` and `cmd/integration_tests` add no
behaviour of their own to the server.

**What makes a component correct.**  Catalog (products, roots, options, values):
what hangs from an archived row is archived; a product appears with everything it
was created with or not at all; what a DELETE answered stays deleted; keys are
unique among active rows; every request is answered, whatever transactions are
left open.  Variant builder: every combination exactly once.  Throttle: no more
than ten failures in a window.  Users: a cookie grants what the user row grants.
Tokens: one open token per user, valid until it expires or is used.  Webhooks: a
product change reaches every active webhook of its event, and no receiver holds up
the shop.  Lists: the pages of a walk put together are the rows that match, each
once, and no page is larger than the limit.  Images: a product shows the pictures it
was created with, all of them stored.  Start-up: nobody serves a part of the schema,
and every start ends.  Discounts: what was deleted stays deleted, and what the caller
is told is what happened.

**What is hard.**  `net/http` handles every request in its own goroutine, and the
handlers check on the connection pool (`db`) what they then change in a
transaction (`tx`): between two statements any other handler may run.  The
existence checks lock nothing.  PATCH writes back a whole row it read before. The
unique indexes on `(x, archived_on)` bind no active rows, because NULLs do not
collide, while those that leave `archived_on` out bind archived rows too. Option
deletion and a panicking product creation leave their transaction open. A crash
loses every open transaction; the answer to a COMMIT can be lost.  Webhooks are
called from detached goroutines and wait for third parties without a timeout. The
pages of a list are requests of their own, no list is ordered, and rows are written
between them.  Image files know nothing of the transaction they are written in, and a
picture is fetched inside it from a host that may never answer.  A migration is three
statements under a lock that is lost with its connection, and two servers may start
at once.  When a connection breaks, the driver sends a statement again that may have
taken effect already.  `PROJECT.json` lists these hazards by line.

## The modules

| module | what it is |
|---|---|
| `CatalogStore` | the five product tables, transactions, the reads, unique indexes and row locks the handlers meet, and the rows each UPDATE selects |
| `Catalog` | the ten state-changing handlers, statement by statement, with failing statements, lost commits and crashes; `Spec`, `FairSpec` and the properties |
| `SoftDelete` | the abstract promise: a row appears once, is archived at most once and never comes back |
| `MCCatalog` | seeds and requests for TLC |
| `Images` | the images of a creation, one by one, with the files they are stored in; implements `Catalog` |
| `MCImages` | the requests of `MCCatalog` with images, for TLC |
| `VariantBuilder` | the odometer of `buildProductsFromOptions` |
| `MCVariantBuilder` | option lists for TLC |
| `Catalog_proofs` | types, transactions, unique keys and the refinement of `SoftDelete` |
| `CatalogDeletion_proofs` | the cascades of `Catalog`; answered deletions stay; what holds of one request at a time |
| `Images_proofs` | the loop over images implements `Catalog`, types, files before images, a product's pictures are its own, and its primary image is unless a PATCH names another |
| `VariantBuilder_proofs` | the odometer builds every combination once, in order, with SKUs of their own, and panics at once or never |
| `Accounts` | the handlers of `users.go`: users, the throttle of logins, reset tokens and the session cookie, while time passes |
| `MCAccounts` | users and requests for TLC |
| `Accounts_proofs` | types, sessions agree with their users, users implement `SoftDelete`, the throttle bounds failures |
| `Webhooks` | the registry of webhooks, and the goroutines that call them when a product changes |
| `MCWebhooks` | webhooks and requests for TLC |
| `Webhooks_proofs` | types, webhooks implement `SoftDelete`, changes reach their subscribers |
| `Startup` | server processes from the configuration to the listener, and the migrations of their database |
| `SchemaHistory` | the abstract promise of the migrations: scripts in order, nobody serves half of them |
| `Discounts` | discount calls from the Go client through the handlers to the table, on the servers of `Startup` |
| `MCDiscounts` | configurations and requests for TLC |
| `Deployment_proofs` | types, migrations implement `SchemaHistory`, discounts implement `SoftDelete`, answers are truthful |
| `Lists` | a client walks the pages of a list while rows are written |
| `MCLists` | a table and queries for TLC |
| `Lists_proofs` | types, walks are complete, nothing comes twice, responses are bounded |

### CatalogStore and Catalog

A table is a function from ids to rows.  An id is the request that inserted the
row and an ordinal within that request: a `bigserial` never repeats an id, and
whom an uncommitted row belongs to can be read off its id.  Request 0 is the seed:
the migrations' and earlier requests' rows.  `SeedAssumption` asks of them what the
foreign keys and the UNIQUE constraints of `1495495688_products.up.sql` enforce on any
table (an option's root and a value's option exist; no two options of a root share a
name and no two values of an option a text, archived or not), that what is active
hangs from what is active, and that active roots have different prefixes, of which the
migrations insert one and product creation checks the rest.  `st` is where the row is in its life:
`absent`, `pending` (inserted by an open transaction, invisible to others),
`active` (`archived_on IS NULL`), `archived`, `aborted`.  An UPDATE that sets
`archived_on` inside a transaction only enters the row in `marks[r]`; `Commit(r)`
settles inserts and marks in one step, `Rollback` undoes them.

A request `r` has `pc[r]`, the statement it runs next; `in[r]`, the parsed
request; `got[r]` and `seen[r]`, the id and the copy of the row its handler has
read.  Each action is one statement of a handler with the conditions, early
returns, rollbacks and answers that follow it up to the next statement:
`DeleteRoot_ArchiveProducts(r)` is `product_roots.go:156-162`.  `Arrive` is
`net/http` starting the goroutine.  `StatementFails`, `CommitFails` and
`ServerCrash` may strike at every statement.

What is abstracted, and why nothing is lost:

- *Isolation.*  PostgreSQL's default, READ COMMITTED, which the code never
  changes: a statement sees what was committed when it starts.  All the inserts of
  one transaction between two visible points are one action: nobody else sees them
  until the commit, and the keys they contend for are contended from the first.
  `db.Begin` runs nothing on the server and is part of the first statement.
- *Row locks.*  Two waits decide outcomes and are kept: an insert waits for the
  uncommitted key of another transaction, and a single-row UPDATE waits for a row
  another transaction has archived.  Other lock waits only delay a statement, so
  every order they allow is one the model has; a deadlock victim is a failing
  statement.
- *Data.*  Names, values and SKU parts are drawn from a small set `Text`; a SKU is
  a sequence of parts, `Lower` is `strings.ToLower`, and `ValidSku` are those that
  `restrictedStringIsValid` lets through: a creation asks it of its body, a PATCH of
  the SKU it has merged, which an option value may have made invalid.  Prices, dimensions and
  timestamps play no part in control: a unique UPC or a CHECK that refuses a row
  is `StatementFails`.  An image list is `valid`, `invalid` or of an
  `unknownType`, and handling it one statement; `Images` takes that statement apart.
  The `primary_image_id` of a PATCH is `image` in its input; `Catalog` knows only
  that the foreign key may refuse it, and `Images` says when.
  Bodies that do not parse answer 400 before any statement and are
  left out, like GET and HEAD.
- *`archived_on`.*  `NOW()` is the start of the transaction, so two rows get equal
  values only in one transaction, which is when `UNIQUE (x, archived_on)` binds.
- *Bridges.*  The rows of one product in `product_variant_bridge` are inserted and
  archived together and are one entry.

### Images

`Images` EXTENDS `Catalog` and puts the loop of `handleProductCreationImages` in the
place of `CreateProduct_InsertImages`.  `loop[r]` is where the request is in it: the
image, the step (`load`, `fetch`, `create`, `encode`, `insert`) and the size being
written.  `files` maps a path, made of the SKU of the request, the index of the image
and the size, to whose picture is there; `images` are the rows inserted, which are
visible when the root of their request is; `primary` is `primary_image_id`.  A PATCH
reads it with the rest of the row (`readPrimary`), and writes back what it has read
unless its body names an image (`MergedImage`): any image, of whichever root, that
other requests can see, since the foreign key asks nothing else (`ImageKnown`).
Creating a file truncates it and encoding fills it: two handlers with one path may leave either
picture or a mixture (`mixed`).  `ImagesAssumption` ties the list of images to the
outcome that `Catalog` is given in its input, and `CatalogIsImplemented` is
`Catalog`'s `Spec`, checked as a property of `Images`: the loop, with its rollbacks,
panic and leaked transaction, implements the one statement.  Abstracted: what a
picture looks like, the paths' base directory (`image_storage` settings), and the
URLs of images in answers.

### Startup and Discounts

`proc[s]` is where `main` is in server process `s`.  `Configure` is `config.go`, with
its ways to end; `Ping` and `PingFails` are `databaseIsAvailable`; the rest is
`m.Up()`, statement by statement as `mattes/migrate` and its driver run them
(`src/vendor/github.com/mattes/migrate`).
SetVersion truncates and inserts on connections of their own although it begins a
transaction, so that each is an action; `begun` are the servers whose transaction is
open, and one that an outage has closed meanwhile fails to commit, with the version
already written, and ends.  The lock is held by one connection of the
pool, so that an outage drops it while its server goes on, and releasing it may miss;
it is only tried (`pg_try_advisory_lock`), never waited for.
`ran` are the scripts that have taken effect: a script is one multi-statement query,
an implicit transaction.  The last script loads the example data and is empty unless
the configuration asks for it.  `Exit` is `log.Fatal`, or a kill.

A call of `Discounts` is a record: the statement its handler runs next (`at`), the
server, the row `found`, the answer, and what the client was given (`client`).
`effects` counts how often its write took effect and `sentAgain` says whether
`database/sql` sent it twice; both are history, read by no action.  `StatementFails`
stands for a database that is gone, `DatabaseRestarts` for an outage that may catch a
statement after its effect.  `Returned` is what each client method makes of an
answer: the message a PATCH or POST loses, the rows of a list it looks for in the
wrong field, the typed nil of a deletion.  Abstracted: amounts, percentages, dates
other than whether `starts_on` is the zero time; login, whose cookie the calls carry.

### VariantBuilder

One step is one iteration of the loop at `product_options.go:64`: a product for
the digits `ix` is appended to `toCreate`, then `next` moves `ix`; `StopsAt(j)`
says at which digit its inner loop returns, `Advanced(j)` what it has done by
then.  An option without values ends the loop at once when it is the first and
panics on an index out of range when it is another: `Catalog`'s `BuildOutcome` is
the same case distinction.  A text is the sequence of the words its underscores
separate, so that `strings.Join(parts, "_")` is concatenation and two lists of
values can give one SKU, as they can in the code.  `SkusAreDistinct` is therefore
claimed for values that are one word each and differ in more than case: `a_b`, `c`
and `a`, `b_c` do give one SKU, and nothing in the repository rules such values
out.

### Accounts

Every statement of `users.go` runs on `db` and commits by itself.  A user row, a
login attempt and a reset token are named by the request that inserted them. A
request has `pc[r]`, `in[r]`, the session it came with (`session[r]`, what
`store.Get` reads) and the user it has read (`seen[r]`: the id and a copy of the
row).  Sessions live in the cookies of clients (`cookie[c]`): a request carries
the cookie its client holds when it is sent, and `session.Save` replaces it when
the answer arrives, so that several requests of one client overlap.

| action | code |
|---|---|
| `Arrive` | the goroutine starts; the checks of registration before its first statement |
| `Register_Exists`, `Register_InsertUser` | `users.go:198-232` |
| `Login_Exhausted`, `Login_Find`, `Login_InsertAttempt`, `Login_Rehash` | `users.go:245-317`: the throttle, the row, the attempt after the comparison, the row written back when its hash is of an old cost |
| `Logout` | `users.go:320-331` |
| `Update_Find`, `Update_Update` | `users.go:436-511` |
| `Delete_Find`, `Delete_Archive` | `users.go:333-378` |
| `Forgot_Find`, `Forgot_TokenExists`, `Forgot_InsertToken` | `users.go:380-419` |
| `StatementFails`, `LostAnswer` | a statement that fails without effect, or takes effect and reports an error |
| `ServerCrash` | the process dies; rows and cookies stay |
| `Tick` | `NOW()` moves on: attempts age, tokens run out |

Abstracted: a hash is what it is a hash of and whether it is at today's cost
(`passwordIsTooWeak`); the rehash of a login hashes the stored hash, not the
password, and no password matches the outcome (`Garbled`).  Names play no part.
Bodies that fail validation answer before any statement and are left out, as is
the validation of a token, which only reads.  The cookie is what the server
signed; a client that sends none is one whose cookie is `NoSession`.
`archived_on` is `st`; `UNIQUE (username, archived_on)` binds no active rows, so
inserts and updates of active rows succeed.  Two archivals at the same instant of
two rows of one name, which it would bind, are a failing statement.

### Webhooks

The handlers of `webhooks.go` run on `db`, statement by statement, like those of
`Accounts`.  A `change` is a handler of `products.go` from the moment its product
has been written: `Change_Lookup` is `GetWebhooksByEventType`, the loop that starts
a goroutine for each webhook, and the answer, which all come after one statement.
`calls[r][w]` is the goroutine request `r` has started for webhook `w`: it waits
for the receiver (`posted`), has its answer (`answered`) or an error (`failed`),
and has run the log statement (`over`), unless the process dies first (`lost`).

Two statements return a column their table does not have.  PostgreSQL refuses
them, so `Create_Insert` always answers 500 and `CreateWebhookExecutionLog` never
leaves a row; both guards are written over the columns of the migration.  The
registry therefore holds what the migrations' example data put there, and its
rows are those of `SeedWebhooks`.  Abstracted: the URL and the content type of a
webhook and the body that is posted; marshalling a product, which cannot fail;
`PATCH` bodies that do not parse.

### Lists

One client asks for page after page of one list; a request is `GetCount` and
`GetList`, the two statements of the list handlers of products, roots, discounts
and webhooks, and `Receive`, the client that appends the rows and asks for the next
page unless this one was short.  Lists change nothing, so that several walks do not
interact and one is enough.  `Insert`,
`Update` and `Archive` are what other requests do to the table meanwhile: no list
has an ORDER BY, and PostgreSQL puts a new version of a row wherever there is
room, so a written row may land at any place of the table and all others keep
their order.  (Two scans of a table of more than a quarter of the shared buffers
may also start at different places, `synchronize_seqscans`; that is left out.)

`Limit`, `Offset` and `Matches` are `applyQueryFilterToQueryBuilder`,
`ParsedPage` and `ParsedLimit` are `parseRawFilterParams`.  A limit is parsed as a
float and cut to an integer: it is a number of halves here, with `NaN`.  Pages so
large that a float64 rounds them or the offset wraps are left out, since no walk
comes there.  The list of the options of a root is no such list: it asks for the
root alone and ignores page and limit (`product_options.go:98`).

## Runs

| run | instance | shows |
|---|---|---|
| `concurrent` | 3 requests at once out of 12 (every operation), a shirt with two sizes, failing statements, one crash | the cascades, unique keys, atomic creation, deletions that hold, harmless leaked transactions; no deadlock |
| `moving` | 2 requests at once out of 21, 2 roots, PATCHes that move rows between roots, name another row's id or another root's image, or ask for an invalid SKU, images that are inline, fetched, refused, and two creations for one SKU; failing statements, one crash, fairness | types; no image is shown before its files are stored; `Images` implements `Catalog`, and `Catalog` implements `SoftDelete`; every request ends unless it waits for a host |
| `serial` | 3 requests one after another from an empty shop, 14 requests to choose from, failures, one crash | without interleaving the checks and cascades keep every active row under an active row and prefixes unique, no failed creation touches the pictures of an active root, and primary images are a product's own unless a PATCH names another |
| `variants` | up to 3 options of up to 2 values, empty ones included, and one list of 2, 3 and 2 values | the odometer builds every combination once, in order, or panics in its first iteration; SKUs are distinct |
| `users` | 3 requests, 2 at a time, out of 10 (every operation), two clients, an admin with an old hash and a customer, failing statements, one crash, time, fairness | types; sessions agree with their users; deleted users stay deleted; failures stay within the limit and the logins in flight; waiting opens the throttle |
| `registry` | 3 requests at once out of 10, three webhooks of two events, failing statements, lost answers, one crash, fairness of the handlers only | types; changes call the webhooks of their event; deleted webhooks stay deleted; every request ends although receivers never answer |
| `pages` | four rows, 13 queries, 2 writes anywhere in the walk, failing statements, fairness | types; undisturbed walks have every row once; deletions never make a row come twice; walks end with all of their pages answered |
| `deployment` | 2 servers with one of 3 configurations; 3 starts and no call, 2 starts and a call, or one start and 2 calls out of 9; servers die at any point, the database restarts once, except with two starts and a call; fairness of `main` and of the client's timer | types; scripts take effect in order and nobody serves half a schema; answers tell what the statements did; deleted discounts stay deleted; every start and every call ends |
| `orphan` | 2 requests at once | finding: an option stays active under a deleted root |
| `tokens` | 2 requests in sequence | finding: two fresh reset tokens of one user |
| `creation` | 1 request | finding: no webhook can be created |
| `count` | the instance of `pages` | finding: the count of a list is not that of the response |

*Bounds.*  `MaxRequests = 3`: every interference here is between the two
statements of one handler and one or two others; the third request lets a victim
of the first two be seen by another (a leaked transaction, an archived option that
is created again).  `MaxRows = 2` (3 in `moving`) gives two options, two values
and two variants, enough for a cascade to catch one and miss another.  One crash:
after it nothing but committed rows is left, which is an initial state again.
`CHECK_DEADLOCK FALSE` appears in `moving`, where a request that waits for ever is the
violation `RequestsEndUnlessFetching` itself looks for, and in `deployment`, where
everything may stop once the starts and calls are used up; the other runs check
deadlock, with `Quiescent` (`Over` for the builder and the lists) the legitimate
end; in `Accounts` time never stops.  `Accounts`: `Limit = 1` stands
for ten attempts and `Window = 1` tick for fifteen minutes; the throttle compares
with both and does nothing else with them, and three logins at two a time are
enough to reach the bound, one failure past the limit, and, were the limit missed by
one, to exceed it.  Two requests in flight are one that reads a row and one that
changes it in between, and the third uses the cookie that results; the safety
properties of this run are proved for any number of requests, limit and window.  `Webhooks`: three webhooks, two of one event, so that the
lookup of an event has to find several and leave one out; three requests are a
change and two that rewrite the registry around it.  `Lists`: `DefaultLimit = 2`
and `MaxLimit = 3` stand for 25 and 50, so that four rows make up to four pages,
the last one full, short or empty; limits below, at and above both are asked for, and
those that come out as 0.  Two writes are an interference and one more that meets
its effect; `MaxPages` is only reached by the walks of limit 0, which never end.
`Images`: two images are enough for one to be stored when the other fails, for a
duplicate to be dropped before the primary, and for two creations to share paths.
`Startup`: `MaxPings = 2` stands for 5, `Last = 5` is the number of scripts, the third
of which alone can run twice.  Three starts are two servers that race and one that
meets what they left; one outage takes a lock away, catches a statement, or uses up
the pings.  The more starts, the fewer calls: two
starts and a call have one server load the example data after a call to the other.  Two calls are one that reads a row
and one that changes it in between; `MaxDiscounts = 5` leaves room for the example
rows and every row two calls, one of them sent again, insert.

*Fairness.*  `FairSpec` assumes weak fairness of each handler: the Go scheduler
runs every goroutine and the database ends every statement it has been given. No
client is assumed to send anything.  Fairness is of `Runs(r)`, the statements that
succeed: a request that waits for ever does not end because it might have failed.
Nothing is assumed of failures and crashes.  In `Accounts`, `Tick` is weakly fair:
time passes.  `Images` assumes the same of its steps and nothing of `Fetched`: a host
may never answer.  `DeploymentFairSpec` assumes that `main` runs and that the client's
timer fires, not that the database recovers, that anybody starts a server again or
that a handler gets its turn.  In `Webhooks` nothing is assumed of receivers.  In `Lists` the client goes on asking; `WalksEnd`
needs no more, because the number of rows written during a walk is bounded by
`MaxWrites` (against a table that grows for ever, a walk need not end).

*Re-parenting.*  A PATCH may carry a `product_root_id` (or the `id` of another
row), and `mergo.Merge` lets it win over the row read.  A product moved between
two statements of a root deletion escapes the cascade, so the two cascade
properties are claimed for requests without such fields (`NoReparenting`); the run
`moving` has them and claims what survives.

## Findings

1. `orphan`: the check behind "can't create an option for a product that doesn't
   exist!" (`product_options.go:201`) runs on `db`, the insert in `tx`.  A root
   deletion that commits between them leaves an active option under an archived
   root, with the 201 already on its way.
2. `tokens`: a second request is to be refused with "user has existent,
   non-expired password reset request" (`users.go:402`), and the column's default
   is fifteen minutes (`1498638543_auth.up.sql:22`); but the INSERT names
   `expires_on` with the zero time, the token has expired before it is used, and
   the check never finds it.
3. `creation`: the INSERT of a webhook returns `executed_on`
   (`postgres/webhooks.go:177`), which is not a column of `webhooks`; PostgreSQL
   refuses it and every POST /v1/webhook answers 500.  The test of "optimal
   conditions" (`webhooks_test.go:133`) puts a mock in the statement's place.
4. `count`: the API's description says of the `count` of a list "The number of
   products in the current response" (`swagger/configs/v1.yml:834`); the code sends
   the number of all rows that match, on every page.

Met on the way, and not the subject of a run of their own:

- "can't create a product with a sku that already exists!" (`products.go:276`) is
  checked on `db`, and `UNIQUE (sku_prefix, archived_on)` does not bind rows whose
  `archived_on` is NULL: two creations at once both find the SKU free and both commit,
  as `UniqueActivePrefix` with `MaxInFlight = 2` and two requests shows.  The two then
  share the paths of their image files, which `StoredBeforeShown` takes into account;
- the existence check of a product creation asks only for root prefixes: the variant `shirt_small`
  does not stop a product `shirt_small`, and later requests by SKU pick either;
- "can't create a user with an email that already exists!" (`users.go:197`) stands
  above a check of the user name; no statement and no index looks at emails;
- the INSERT of an execution log returns `created_on`
  (`postgres/webhook_execution_logs.go:124`), which the table does not have: no
  call is ever logged (`CreateWebhookExecutionLog`);
- `GetProducts` of the Go client (`client/v1/products.go:38`) reads the field
  `products`, the server sends `data` (`helpers.go:35`);
- `MaxLimit` "is the maximum number of objects Dairycart will return in a response"
  (`helpers.go:23`), but the list of a root's options takes no limit;
- the PATCH of a product may name any image there is as its primary one
  (`products.go:204`): `PrimaryImagesAreOwn` makes an exception of such images;
- a variant whose SKU an option value has made invalid (digits, say) can only be
  PATCHed together with a new SKU (`products.go:206`): `RequestedSku`;
- `UNIQUE (product_root_id, name)` binds archived rows too: an option that was deleted
  is found free by the check and refused by the index, with 500 (`OptionNameTaken`), and
  a root two of whose options share a value text can never be deleted (`ShareAValue`);
- `limit=0` becomes LIMIT 25 with OFFSET 0 on every page (`postgres/main.go:30`):
  the walk repeats its first page for ever, and the properties of walks ask for a
  limit above 0;
- the lookup of webhooks does not ask for `archived_on IS NULL`
  (`postgres/webhooks.go:25`): a deleted webhook is called for ever;
- `GetDiscountByCode` selects a column `sku` that `discounts` does not have; nothing
  calls it;
- a PATCH of a discount cannot clear a flag and, without `starts_on`, writes the zero
  time over it: `mergo.Merge` fills empty fields from the row but never a `time.Time`
  (`discounts.go:133`);
- `DeleteDiscount` and its like return a nil `*ClientError` in an `error`, which is
  not nil (`client/v1/client.go:144`); `makeDataRequest` wraps `err` where it means
  `resErr`, so that a refused write says nothing (`client.go:169`);
- when a connection breaks after an INSERT of `CreateDiscount` took effect,
  `database/sql` sends it again: one 201, two rows;
- a database migrated without example data records version 9999999999 all the same,
  and never loads them later; a death between the TRUNCATE and the INSERT of a version
  leaves a database that no start can migrate;
- a released lock may miss the connection that holds it: the next server then ends
  with `ErrLocked` while the first one lives;
- the default cookie secret differs from start to start, and sessions end with it.

## Proofs

All from the named assumptions on the constants, for any number of requests, rows,
users and values.

- `TypeCorrect` (`Catalog_proofs`): `Spec => []TypeOK`.  `TypeOK` is not
  inductive: an UPDATE uses `got[r]` as an id of its own table, and a PATCH writes
  back the fields of `seen[r]`.  `TypeInv` adds `LocalsOK`: at each label, of
  which table `got[r]` is an id and of which kind `seen[r]` a row.  The step lemma
  has one case per action; table updates go through lemmas about `Settled`,
  `Undone` and `Written`.
- `RootDeletionCascades` and `BridgesFollowProducts` (`CatalogDeletion_proofs`):
  under `NoReparenting`, `ActiveProductsHaveActiveRoot` and
  `ActiveBridgesHaveActiveProduct` are invariants.  The inductive invariant
  `DeletionInv` says what the statements of a cascade hand on to one another:
  `MarksKnown` (only committed rows are archived, and a root only at the very
  end), `Cascades` (at each label, the bridges already archived cover every active
  bridge of the products about to be archived, and the products archived cover the
  active products of the root), `Fresh` (the ids a request will draw are unused),
  and `PendingTogether` (a pending product hangs from the pending root of its own
  request, so that no product can slip in under a root being deleted).  The last
  is the reason the theorem holds where `ActiveOptionsHaveActiveRoot` fails:
  options can be added to an existing root, products cannot.
- `CreationAtomicity`, `KeyUniqueness` and `LeakHarmless` (`Catalog_proofs`) come of one
  inductive invariant, `TransactionInv`.  `Stage(r)` says at each label which states the
  rows of `r` may be in: nothing before the first INSERT, pending until the commit, and
  after it all committed or all aborted.  `MarksOK` and `WorksOn` say that a
  transaction archives only rows others can see, and that the row a handler has checked
  to exist was committed, which it stays.  `KeysUnique` is about the keys an index
  holds, those of open transactions too: without them two pending options could commit
  to one name.  `HangsFromVisible` (an option hangs from a committed root or its own
  request's) is what makes a leaked pending option harmless, since its root is pending
  as well.  `StepKeeps` splits every step into the requests that take part and the rest,
  which keep their part because rows are only ever `Kept`.
- `SoftDeletion` (`Catalog_proofs`): `Spec => RowsAreSoftDeleted`, the refinement of
  `SoftDelete`.  A step maps to creations (a commit of inserts), archivings (a commit of
  marks, or the one deletion that is a statement of its own) or a stutter, never to
  both: by `Stage` and `MarksOK` a transaction that inserts does not archive.
- `DeletionsStay` (`CatalogDeletion_proofs`): under `NoReparenting`, `DeletionsHold`.
  `AnswersInv` says of an answered deletion what the property does, and of one that is
  about to commit what its marks will make true.
- `ValuesFollowOptions`, `OptionsFollowRoots` and `PrefixesUnique`
  (`CatalogDeletion_proofs`): what holds if `MaxInFlight = 1`, and does not otherwise
  (`orphan` is the counterexample).  `SerialInv` says what each handler relies on while
  nobody else runs: `StillChecked`, that what it has found to exist, or not to, is so
  until its insert; `HangsTogether`, that what its commit shows hangs from rows that are
  active or are shown with it; `ArchivesBelow`, that at each statement of a deletion
  what is archived so far covers what hangs from it.  Requests that have left a
  transaction open are still there: what they inserted stays pending.
  `OptionsFollowRoots` needs `NoReparenting` as well, since a PATCH of an option may
  name a deleted root.
- `ImagesImplementCatalog` (`Images_proofs`): `ImagesSpec => Catalog`'s `Spec`.
  `LoopInv` says where the loop of each request is: at its start before the root is
  inserted, and with nothing but loadable images behind it, so that the image at which
  it stops decides the outcome that the input of `Catalog` names (`FirstBadImage`).
  `CatalogWithImages` draws the consequences.
- `FilesBeforeImages` (`Images_proofs`): `FilesInv` adds which files a loop has written
  (`HasWritten`), that each is whole or shared with a request of the same SKU
  (`FileFine`), and that a request whose loop has moved has inserted its root; it needs
  `TransactionInv` for the last.  A file another creation writes over is therefore
  always one whose root is there to be blamed (`OthersFiles`).
- `PicturesStay` (`Images_proofs`): if `MaxInFlight = 1`, `PicturesAreOwn`.
  `OwnFilesInv` says that everything written by the request that runs, and by those
  whose root is active, is whole; a loop that writes has a SKU that no active root has
  (`StillChecked`), so that the paths differ (`OwnOthers`).
- `PrimaryImagesStay` (`Images_proofs`): under `NoReparenting`, `PrimaryImagesAreOwn`,
  for any number of requests at once and any image a PATCH may name.  `PrimaryInv` says
  which values the column of a product may hold, `ImageFits`: an image of the product's
  own creation, one that a PATCH of the product has named and others can see, or none
  if the creation had options or no images.  `CreatedWith` says so of what the row holds, `ReadFits` of
  what a PATCH has read and may write back, however old it is by then: that it once
  fitted is enough, since images and visible roots stay and so does what was named
  (`NamedStays`, `FitsStays`).  That the row is not overtaken is not part of it: of two
  PATCHes the later may put the earlier image back.  `RowsBehind` adds that the rows of
  the images behind a loop are inserted.
- `ImagesTypeCorrect` (`Images_proofs`): the primary index is the least of a set of
  positions, for which `SmallestIndex` takes the well-foundedness of `<`.
- `CombinationsInOrder`, `EveryCombinationIsBuilt` and `OnlyAnEmptyOptionPanics`
  (`VariantBuilder_proofs`): the digits only grow in the lexicographic order, and
  what lies strictly between two successive digits is nothing.  The induction over
  digits that this takes is a least element: `LeastElement` finds the first digit
  in which two combinations differ, from the well-foundedness of `<` on the
  naturals.
- `SkusOfTheirOwn` (`VariantBuilder_proofs`): `SkusAreDistinct`.  `SKUJoins` shows
  that the recursive definition of a SKU has a solution: parts of it exist for any
  number of options (`JoinsExist`), two of them agree (`JoinsAgree`), both by a least
  counterexample, and together they are the solution.  `SKUWords` then reads off the
  word that each option contributes, and combinations that differ in no word are
  neither before the other, so by `BuiltInOrder` they are the same product.
- `AccountsTypeCorrect` (`Accounts_proofs`): `TypeInv` adds that a handler past
  its first read works on the copy of a known user.
- `SessionsAreTruthful` and `UsersImplementSoftDelete` (`Accounts_proofs`):
  `CookiesMatchUsers` is an invariant and `Spec => Soft!Spec`.  The inductive
  invariant `SafeInv` says of everything anybody holds about a user (cookies,
  sessions of requests, copies of rows) that it agrees with the row on `is_admin`,
  and that a request that has not inserted its user has an id nobody knows.
  `Keeps`, what a step may do to a row, is the one fact each handler is proved to
  satisfy.  The refinement takes each step to `Create`, `Archive` or a stutter.
- `ThrottleHolds` (`Accounts_proofs`): at most `Limit - 1 + MaxInFlight`
  recent failures of a user name.  Recent failures alone are not bounded
  inductively: `BoundInv` counts with them the logins the throttle has let through
  and not heard from (`Cleared`).  A login let through finds fewer than `Limit`
  failures, and all that are cleared are in flight.
- `WebhooksTypeCorrect`, `WebhooksImplementSoftDelete` and
  `ChangesReachSubscribers` (`Webhooks_proofs`): the type invariant adds that a
  handler past its read holds a known webhook.  No statement of the registry makes
  an archived row active (`Keeps`), hence the refinement.  `ReachInv` carries the
  calls of an answered change along: a webhook that is active and not updated now
  was so at the lookup, and had the event it has.
- `NothingComesTwice` (`Lists_proofs`): `NoRowTwice`.  An archived row may land
  anywhere, so that places say nothing about what has been seen; `OnceInv` counts
  instead.  The rank of a row is the number of rows that match up to it, and what the
  client has got and still matches has a rank within the pages before (`Within`).
  Archiving a row lowers ranks and never raises one (`ArchivedPlaces`), and the next
  page is cut from higher ones (`PagesAreNew`).  That ids are unique is
  `ListsAssumption`: they are primary keys.
- `ListsTypeCorrect`, `WalksAreComplete` and `ResponsesStayBounded`
  (`Lists_proofs`): `WalkInv` says what an undisturbed walk
  has at each of its points, the first `(page - 1) * limit` rows that match
  (`First`), and where the answer in flight is cut from; `NextPage` glues a page to
  the rows before it, and a short one to all of them.  That `Matching` is a
  sequence of rows at all takes the one induction, `Ranks`: every rank up to the
  size of a set of places belongs to one of them.
- `ScriptsRunInOrder` (`Deployment_proofs`): `Startup` implements `SchemaHistory`.
  `SchemaInv` says what a server may conclude from the table of versions and from the
  script it holds: a clean version vouches for its own script and all before it, a
  script in hand for those before it.  Neither the lock nor who else is migrating plays
  a part, so that losing the lock half way costs a start and not the order.  Each step
  keeps the schema, or serves, stops or loads (`SchemaMoves`), and these are the steps
  of the abstract module.
- `DeploymentTypeCorrect`, `AnswersHold` and `DiscountsImplementSoftDelete`
  (`Deployment_proofs`): `CallOK` says of a call what its handler has done by the
  statement it is at: no effect before the first write, one before the second only if
  the statement was sent again, a row that was found is there.  `RowsTurn`, what a
  step may do to the table, keeps `CallOK` of the calls that do not take part
  (`OtherCalls`) and is the refinement of `SoftDelete` at once.

*Only model-checked*: `RequestsEndUnlessFetching`, the `EveryRequestEnds` of
`Webhooks`, `NobodyWaitsForEver`, `WaitingHelps` and `WalksEnd` (TLAPS
proves no liveness under fairness and no ENABLED).

## Plan

Done: `CatalogStore`, `Catalog`, `SoftDelete`, `VariantBuilder`, `Accounts`,
`Webhooks`, `Lists`, `Images`, `Startup`, `SchemaHistory`, `Discounts`, their runs and
the proofs above.

Every invariant and every step property of the runs that pass is stated by a theorem.

## Not modelled

Single reads of products, roots, options and webhooks (GET, HEAD), which change
nothing; the interfaces and their mocks, which are test doubles; the admin server,
which serves static files; the development tools; the client's methods other than
those about discounts, which are made of the same four requests; the list of a root's
options; the plugins of `config.go`, of which the source has only mocks; `Downgrade`
and the store functions that nothing calls (product image bridges, updates of images,
bridges and logs, `GetDiscountByCode`).
