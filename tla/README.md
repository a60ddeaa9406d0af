# Kafka Eagle: a verification project in TLA+

Kafka Eagle is a web application that monitors Kafka clusters. It reads brokers,
topics, consumer groups and offsets from ZooKeeper, Kafka and JMX, shows them,
runs jobs that add up lags and metrics, sends alarms, and answers SQL queries
over the records of a topic. The modules here model the parts of it whose
correctness depends on the order of events. On the server: threads that share
clients, users that share nodes, jobs that read a moving system, listeners that
lose their place, a bootstrap that may be cut short. In the browser: answers that
overtake each other, transitions that are overtaken by clicks, an editor that is
written into from outside while timers read it. TLC checks the modules on small
instances; TLAPS proves theorems about twenty of them for every instance.

Paths are shortened: `common/`, `core/`, `plugin/`, `web/`, `api/` stand for
`src/kafka-eagle-*/src/main/java/...`, and `js/` for
`src/kafka-eagle-web/src/main/webapp/media/js/`; PROJECT.json has them in full.

## 1. The system

### Components on the server

| Component | Code | State | Operations |
|---|---|---|---|
| ZooKeeper client pools | `common/util/ZKPoolUtils` | two `Vector`s of idle clients per cluster (plain, serializer), static | `getZkClient`, `getZkClientSerializer`, `release`, `releaseZKSerializer` |
| Kafka service | `core/factory/KafkaServiceImpl` | none; each call holds a client in a local | some forty reads, `create`, `delete` |
| ZooKeeper service | `core/factory/ZkServiceImpl` | the field `zkc`, one per object | `getAlarm`, `getOffsets`, `remove`, `update`, `insertAlarmConfigure`, console commands, status |
| Alarm configuration | `web/controller/AlarmController`, `web/service/impl/AlarmServiceImpl`, `ZkServiceImpl` | nodes `/kafka_eagle/alarm/<cluster>/<group>/<topic>` | add, delete, list |
| Consumer offset cache | `core/ipc/KafkaOffsetGetter` | `multiKafkaConsumerOffsets`, a static map; the position of its own consumer group | a listener thread, plain or with SASL; readers |
| Lag statistics and alarms | `web/quartz/OffsetsQuartz` | locals of a run | `execute`, `alert`, every minute or so |
| Counter statistics | `web/quartz/CounterQuartz`, `web/dao/CounterDao.xml` | table `ke_counter` | `execute`, `counter`, once a day |
| Metrics | `web/quartz/MBeanQuartz`, `web/service/impl/MetricsServiceImpl` | table `ke_metrics` | collect, clean, query |
| Database bootstrap | `web/controller/StartupListener`, `plugin/sqlite`, `plugin/mysql` | the tables of the database | list, create, fill |
| Kafka SQL | `core/sql/*` | locals of a query; the static map `JSqlMapData.MAP` | parse, fetch, query |
| Accounts, roles, resources | `web/sso`, `web/controller/*Controller` | tables `ke_users`, `ke_user_role`, `ke_role_resource`, `ke_resources`; Shiro's authorization cache | login, edit, authorize |
| Views | `web/service/impl/*` | none | formatting of what the services return |
| Dispatch | `api/` | none | mail, DingDing |

### Components in the browser

| Component | Code | State | Operations |
|---|---|---|---|
| Metrics pages | `js/main/metrics/zk.js`, `kafka.js`, `js/plugins/datatimepicker/daterangepicker.js` | the range asked for; charts; the picker's calendars and dates | choose, poll every five minutes, redraw |
| Trees | `js/main/index.js`, `consumer/consumers.js`, `system/resource.js`, `js/plugins/d3/*` | `children` and `_children` of nodes, elements, transitions | load, toggle, lay out, animate |
| Tables and dialogs | `js/main/topic/list.js`, `topic.meta.js`, `consumer/*`, `cluster/*`, `alarm/modify.js` | tables, what a dialog was opened for | open, page through, confirm |
| Form of an alarm | `js/main/alarm/add.js`, `js/plugins/magicsuggest`, `js/plugins/tokenfield` | two boxes with list and selection; tokens and an input | type, choose, edit, submit |
| Query page | `js/main/topic/msg.js`, `js/plugins/codemirror/*` | the editor's document, history, view, textarea, completion; log and table | edit, complete, run |
| Administration | `js/main/system/user.js`, `role.js`, `resource.js` | the clicked id, dialogs, check boxes | assign, edit |

### How they interact

* The web container runs requests in many threads; the quartz scheduler runs the
  jobs. All of them call `KafkaServiceImpl` and `ZkServiceImpl` directly, and
  meet in the static pools of `ZKPoolUtils`. Every service class creates its own
  `ZkServiceImpl`; as Spring services are singletons, all requests of one
  service share that object and its field `zkc`.
* `OffsetsQuartz` reads log ends from brokers and offsets from ZooKeeper, or,
  when `kafka.eagle.offset.storage` is `kafka`, from the cache that the thread
  of `KafkaOffsetGetter` fills. It reads the alarm nodes the users write.
* `CounterQuartz` reads log ends the same way and stores sums through MyBatis.
* `StartupListener` starts the bootstrap thread and the offset listener; it is
  scanned by two Spring contexts, so that each starts twice. (The static
  initializer of `KafkaOffsetGetter` still runs once.)
* A page asks the server by jQuery's `ajax` and DataTables; requests are not numbered
  (but for those of DataTables), not cancelled and have no error handler. Within a page, plugins call back the page, and timers
  and events of the browser call plugins. Two pages share only what the server keeps.

### What is hard, and what makes each component correct

| Component | Hard behaviour | Correct when |
|---|---|---|
| Pools and borrowers | threads interleave; a ZooKeeper access throws past the release; connecting fails; a method borrows twice | pools bounded; a client returns to its own pool; one owner per client |
| ZkServiceImpl | unsynchronized field, tested and read again; exceptions leave a client behind | one owner per client; accesses go to the cluster asked for |
| Alarm configuration | test, create, test, write are four operations; answers are lost and operations sent again; crashes | success means stored; lists show what existed; nodes change only as asked |
| Offset cache | redelivery after a rebalance; restarts; records that cannot be read; bytes taken for text | entries are commits to their keys, not older than what was taken; commits get there; all clusters are heard |
| Lag statistics | log end and offset read at different moments; failed reads show as 0 or -1; topics vanish | lag never overstated, exact when nothing moves; alarms not lost |
| Counter | find, update, insert and message are separate; exceptions between; the update touches all topics of a group | compared with the record before of the same group and topic; growth adds up |
| Bootstrap | two threads race; crash between CREATE and INSERT | every table filled; a fault costs no more than it must |
| Queries | leaders and brokers change between requests; records expire; one key for all tables | no record twice, no unexplained gap, rows of one fetch, the query ends |
| Accounts | the cache is filled by several reads and cleared after some changes | an entry grants what the roles have; dialogs show what is stored |
| Metrics pages | answers of any age; a half chosen range | the charts come to show the range chosen last; the range is allowed |
| Trees | clicks during transitions; late frames | the elements are those of the visible nodes; the layout is tidy |
| Tables | answers of any age; a new table per click | rows, dialogs and links belong to the last click |
| Form of an alarm | keys, clicks, focus and timers in any order | tags, lists and value agree; the topic is the group's |
| Editor | the text is in five data structures and a textarea, each updated by differences | all of them are the text the user has in mind |

PROJECT.json lists these one by one, with the line of the code, under `hazards`.

## 2. Modules

| Module | Models | Built on |
|---|---|---|
| `ZKPoolUtils` | the pools, as operators that other modules step with | |
| `KafkaServiceImpl` | calls of threads that borrow from the pools | `ZKPoolUtils` |
| `ZkServiceImpl` | calls through the field `zkc`, composed with the above | `KafkaServiceImpl` |
| `AlarmRegister` | what the alarm configuration promises: a register per key | |
| `AlarmConfigure` | its node operations; implements `AlarmRegister` | `AlarmRegister` |
| `KafkaOffsetGetter` | the listener thread and its cache | |
| `OffsetsQuartz` | one run after the other of the lag job for a cluster | |
| `OffsetServiceImpl` | the offset page, beside the job or alone | `OffsetsQuartz` |
| `CounterQuartz` | the daily counter and its table | |
| `RecordSchema` | the bootstrap threads and the tables | |
| `SimpleKafkaConsumer` | the reading of a partition by the old consumer | |
| `KafkaSqlParser` | a SQL query, from its text to its answer | `SimpleKafkaConsumer` |
| `SSORealm` | roles, resources and the authorization cache | |
| `SystemPages` | the administrator's pages of users, roles, resources | `SSORealm` |
| `DateRangePicker` | the picker of days | |
| `MetricsPage` | requests and charts of the metrics pages | `DateRangePicker` |
| `CollapsibleTree` | the trees: layout, join, transitions | |
| `TablePages` | tables and dialogs | |
| `AlarmForm` | the boxes for group and topic | |
| `TokenField` | the field of the owners | |
| `Positions` | places of a list, for the form and the field | |
| `SqlPage` | running queries: log and result | |
| `EditorText` | positions, changes, selections | |
| `LineTree` | the document as a tree of chunks of lines | `EditorText` |
| `EditorHistory` | changes, merging, undo and redo | `EditorText` |
| `SqlMode` | the tokens of SQL | |
| `EditorView` | the drawn part of a document and its highlighting | `EditorText`, `SqlMode` |
| `EditorInput` | the hidden textarea, clipboard, mouse and context menu | |
| `SqlHints` | completion | `EditorText`, `SqlMode` |
| `MC...` | constants of the TLC instances | see section 3 |
| `...Proofs` | theorems about the module of that name and others checked beside it, see section 4 | the modules they are about |

Every definition that stands for code is in the `map` of PROJECT.json with the
lines it stands for. In the modules, an operator whose name ends in `Mutant` is a plausible
bug of the operator that follows it: replacing the one by the other must
make a property fail, and `mutants` names one for each property.

### ZKPoolUtils and KafkaServiceImpl

`pool[p]` is the Vector of idle clients of a kind and cluster, `opened[p]` counts
the clients constructed for it; a client is a pair of pool and serial number.
The get methods and the release methods are `synchronized` on the class, so each
is one step. `Refill` is the loop that fills an empty pool and takes the first:
each construction may fail by itself. `release` drops the client when the pool
is at its size.

A method of `KafkaServiceImpl` is a record of the pool it borrows from and the
shape of its body: where its accesses may throw and whether a `finally` or handler
then gives the client back. The shapes were read off every method that
borrows; methods of the same shape behave alike, and what they read is left out.
`frame` holds, per thread, the call it makes and one nested call
(`findKafkaLeader` calls `getReplicasIsr` with its client in hand).

### ZkServiceImpl

The four methods around the field have one shape, given in the head comment of
the module; each test, assignment and use of the field is an action, because
nothing makes two of them one. `object[u]` says which object a user calls and is
chosen at the start among all ways of sharing. `thrown` remembers whether an access
has thrown on its own account (not because the field was null).
`PoolsHoldClients` says what own objects are for: the release of a field that was emptied between the test and
the release puts null into a pool, which the next `get` hands out; where each user has an object, no pool ever holds anything but
clients. `insertAlarmConfigure`, which `AlarmServiceImpl.add` calls, is `update` in a handler: its call is one of `update`.

### AlarmConfigure and AlarmRegister

One action per ZooKeeper operation. ZkClient sends an operation again when its
answer is lost, so that it may have been carried out before it is answered as
failed. `written`, `removed`, `seen` and
`kept` are histories of a call: did it write, was its key deleted meanwhile, what
existed at some moment, what existed all the time. The refinement mapping reads
an absent or still empty node as "no configuration".

### KafkaOffsetGetter

Offsets are numbered by the records that commit them, so that "older" is smaller. Records are told apart as the code
does: commits, deletions, unknown versions, metadata of groups. `saved` is the position the consumer
group of Kafka Eagle itself commits now and then; a rebalance goes back to it, or, before anything was saved, to the end of the topic. The thread
starts with the first cluster of the list and never leaves it.

`sasl` chooses one of the two listeners, for a whole behaviour. The plain one reads bytes. The one with SASL has them decoded as text
and takes the bytes of that text: `AsText[k]` is the key that is read from the bytes of `k`, a `shifted` value is read as another
number, and what is `broken` cannot be read at all. It leaves out commits of the topic `__consumer_offsets` itself (by the key
it has read), and handles what `poll` throws, where the plain one ends. `EntriesAreCommits` says exactly which entries are wrong then: an entry is a commit to its
key, or it was read from a record whose bytes are not those of its text, which commits to a key that reads as the entry's (a
commit for partition 200 is kept as one of 239). With the plain listener every entry is a commit to its key.

### OffsetsQuartz and OffsetServiceImpl

A run reads, for each topic, its partitions; for each partition, the log end and
then the offset; and at the end sends the alarms. Between any two of these reads
records are produced and consumed, topics deleted, consumers stopped. `together`,
`least` and `quiet` are histories that say what the lag was really like. Alarms
are modelled as enabled (`kafka.eagle.mail.enable`).

`OffsetServiceImpl` adds the page of a topic and group, which reads the same
sources in the other order: the offset of a partition, then its log end. A row
remembers the lag at the moment its offset was read (`then`). Job and page only read, so
a behaviour has one or the other.

### KafkaSqlParser

The query is what `parseSql` and `hasTopic` make of it: whether its table is a
topic, whether some topic's name occurs in the text, whether the partition is
listed. Then it goes through `SimpleKafkaConsumer`, whose steps it takes over, or
through the poll loop of `KafkaConsumerAdapter`; both read the same log while the
brokers change. `db` is `JSqlMapData.MAP.get("db")`, which `loadSchema` sets for any query and
Calcite reads when it plans; the rows it scans are those of the table it planned
with. Other queries appear as what they put there.

### CounterQuartz, RecordSchema, SimpleKafkaConsumer

`CounterQuartz` has a row per group and topic and one action per SQL statement
group: find, update or insert, message. It is the job of one cluster; `ke_counter` has no column for the cluster, so
groups of the same name in two clusters are like two topics of one group, or like one, and share their rows. `RecordSchema` has one action per
statement sent to the database. `SimpleKafkaConsumer` has one action per request
to a broker; the brokers, the leader and the log change between any two.

### SSORealm and SystemPages

`SSORealm` reads a user's roles and then each role's resources in separate steps, and the entry goes
into Shiro's cache after the last; the controllers change a table in one step and clear the cache in a later one
(`clearing` counts those under way), and not after each kind of change.
`EntriesFollowTheRoles` says what that achieves: when nobody is about to clear the cache, an entry grants what its
roles have by now, unless a clearing came while it was read. (The roles themselves are those the user had when it was read.)
`SystemPages` has a click, the request, its answer and the effect on the page as separate steps;
`shown` is the list of the dialog: whose it is, which boxes it has (`Boxes`: the roles, or what is in the tree of the resources) and which of them
are checked. The tree of a role is not there at all when a resource's parent has been deleted in another window: the request ends
in an exception, and the dialog that opens shows the tree of the role before (`HandleList`; the administrator got no answer and is `hasty` from
then on, until the next click).
`PatientAdminSeesTruth` is about an administrator who waits for each answer: for any other the pages may show
the roles of one user under the name of another, since `user.js` keeps the clicked id in a global variable.

### MetricsPage and DateRangePicker

The picker is a record of its fields; `setStartDate`, `setEndDate`, `updateView`, `clickDate`, `formInputsChanged` and the rest
are operators on it, events of the browser are actions. Days are numbers and months
have a fixed length. An option set with `minDate`, `maxDate`, `dateLimit`, ranges, single, linked, auto apply is chosen at the
start. The page asks for a range when the picker applies one, and again at each poll; up
to a bound of requests are open, each with the range it was sent with, and each answer draws its charts in order, ending where
a chart's data cannot be parsed.

### CollapsibleTree

`Run` is a step of d3's timer list: a transition starts, ticks or ends; starting stops the older ones of the
same element; ending a transition of a node that left removes the element. `LayoutIsTidy` checks the result of the
tidy layout algorithm, which is modelled with its walks (`FirstWalk`, `Apportion`, `SecondWalk`), against what a tidy tree is: levels in
order, a distance of one (two between cousins), parents in the middle above their children.

### TablePages

DataTables numbers its requests (`sEcho`) and drops answers that are not to the newest, per table; the
consumers' page makes another table per click. A dialog's link is made from what was clicked and the token in its input.

### SqlPage

`results` are the panels in the page as they follow each other: `viewerTopics` appends one, removes that of the answer before, makes a table of the
new one and only then counts `offset` up. An answer without rows is "[]", which gives no columns, and DataTables throws at its sorting by the first of them,
after it has registered the table: so `offset` stays, and every later `dataTable` throws at the table without a header that it finds
registered (`halfMade`). From then on panels pile up and none is a table. `LogFitsResult` is stated for both halves:
a table stands alone, panels pile up only after such an answer, and a status in the log is that of the last panel. An error
without a message (`AnswerError`) throws in the log's editor and leaves the log empty.

### AlarmForm and TokenField

Each box is a record of focus, input, list, active item, selection and timers. Keys, clicks and blurs call the plugin's
handlers, which call each other and the page (`add.js` sets the topics' data when a group is chosen). `FormFits`: tags are the selection, at most one;
a topic chosen since the group's last change is the group's. `TokenField` has the tokens, the input between them, the token that
is edited and the value of the original field.

### The SQL editor

`EditorText` translates positions and changes. `LineTree` has `updateDoc`, and the insertion, removal, spilling and collapsing of a tree of chunks: the lines of the tree must be those of the plain text. `EditorHistory` has events and
selections in `done` and `undone`, with the rules by which changes merge. `SqlMode` is the tokenizer.
`EditorView` has `display.view`, the DOM, the frontier of the highlighting worker and the operation's flags. `EditorInput` has the hidden
textarea with its selection, the poll timers, the clipboard, mouse buttons and context menu, and beside it the text that the user has in mind.
`SqlHints` has the completion with its timers and key map. The modules are checked each for itself: what one passes to the next (a
change, a text, a key) is an input of the other.

## 3. Runs

Twelve runs: eight that pass, and four in which TLC finds a counterexample to
what the repository says of itself. Several parts of the browser are checked in one run with a part of
the server: the MC module has a variable `part`, chosen at the start, and a behaviour has the
steps of that part alone, with the others at rest in one initial state. The parts do not
interact, and the states of the run are the sum of theirs, not the product.

| Run | Instance | What it shows |
|---|---|---|
| `kafka_pool` (`MCKafkaPages`) | 1 cluster, 2 kinds, pools of 2, up to 4 clients each, 2 threads, all methods, failures | pools bounded, clients home, one owner |
| | three trees, one with contours to tie; transitions of 2 or 3 frames; 3 clicks before all is at rest | elements are the visible nodes, layout is tidy (`TreesAreRight`) |
| | 2 subjects and 2 tokens, 3 tables, 2 draws of each | rows, dialogs and links of the last click (`PagesShowTheLastClick`) |
| | texts of up to 5 lines with comments over lines, a window of 1 line, one change, scrolling, hiding, the worker | what is drawn is the text and, at rest, its highlighting |
| | chunks of 2 lines, up to 5 lines, 1 character | the tree of lines is the text (both: `EditorIsRight`) |
| `zk_fields` (`MCZkServiceImpl`) | 2 clusters, pools of 1, 2 users of 2 objects shared in any way, 1 thread of console commands, failures | what holds with shared and with own objects |
| `zk_shared_cluster` | 2 users of one object, 2 clusters, no failure | **violated**: an access goes to the wrong cluster |
| `alarm` (`MCAlarmPages`) | 2 users, 2 topics of a group, 2 configurations, lost answers, crashes | success is stored, lists are sound and complete, the register is implemented |
| | 2 groups with 1 and 2 topics of the same ids, one filter | the boxes of the form fit (`FormFits`) |
| `offsets_cache` (`MCOffsetPages`) | 1 cluster, either listener, 3 keys: one reads as another when taken for text, one is of `__consumer_offsets` itself; 3 records, 2 restarts or rebalances | entries are commits, not behind; commits get cached |
| | up to 3 tokens, one character typed, two and a blank pasted, edited, removed | what is submitted is what is shown (`OwnersAreTheTokens`) |
| `offsets_second_cluster` | 2 clusters | **violated**: the second cluster is never listened to |
| `lag` (`OffsetServiceImpl`) | both storages, 1 topic of 2 partitions, up to 2 records each, all faults; job or page | lag of the job never overstated, exact at rest (`JobLagIsRight`); that of the page not below the true one |
| `lag_gone_topic` (`OffsetsQuartz`) | 2 topics, one deleted, nothing else moves | **violated**: no alarm for the other topic |
| `counter` (`MCPages`) | 2 groups on a topic, sizes up to 2, a failing run, short reads | right predecessor, growth accounted for |
| | 4 days in 2 months, today the last; 5 sets of options; 2 charts, 2 open requests | a range is allowed and whole (`RangeIsAllowed`); charts settle (`PageSettles`) |
| | 2 characters, 4 operations, two cursors | undoing and redoing lead back (`UndoRestores`) |
| `counter_two_topics` | 1 group with 2 topics, no failure | **violated**: compared with the size of another topic |
| `schema` (`MCRecordSchema`) | the 8 tables of `JConstants`, 2 threads, up to 2 faults | an undisturbed start is complete; loss is bounded |
| | 2 users, 2 roles, 2 homes and 2 children, 3 requests; the cache of one user; each page begins with few contents of the tables it does not change (`FewTables`) | cache and dialogs (`AccountsAreRight`) |
| `query` (`MCQueryPages`) | 3 brokers on 2 hosts, up to 3 records, one broker stopped or leadership moved (with any number of restarts and elections), the real bound of 5 errors, old or new consumer, other queries with the same or another table | order, gaps, whose rows are answered, end of a query |
| | 2 queries, 4 runs, answers with columns and without; 3 keywords, texts of 3 characters; 4 events at the textarea | log and result, completion, input (`PageTakesQueries`) |

### Why the bounds are enough

* `kafka_pool`: pools of 2 can be full, half full and empty, and with 4 clients a
  pool can be refilled while two are out and overflow when they return. Two threads
  with a nested call each hold up to four clients at once. The theorems hold for all bounds. The big tree is the smallest
  in which a contour passes from one subtree into another and a shift is spread over a child between. Three clicks
  open, close and open again a node whose transitions are of different lengths. The constants of the editor (10, 20, 500,
  5, 100) are small, so that five lines reach beyond the window, its margins and the lines the worker looks at.
* `zk_fields`: a field race needs two users; a wrong cluster needs two clusters; a pool
  of 1 is refilled as soon as one client is out. Sharing is chosen among all maps from
  users to objects.
* `alarm`: two users suffice for each pair of interleaved calls, and a list needs
  two topics to be caught between them; values only need to be told apart (and the theorems hold for all). The form needs two
  groups that have topics of the same ids, as the server numbers each group's topics from 1.
* `offsets_cache`: three records give an old and a new commit of a key with one of another kind between
  or after them; two faults give a redelivery after a redelivery. Three keys are one that reads as another, that other, and one that is left
  out. Three tokens have a middle one.
* `lag`: a sum needs two partitions; two records per partition let log end and offset
  move apart by different amounts between the reads. The number of topics matters
  only to `lag_gone_topic`.
* `counter`: three daily runs and more happen within the bound on records, since a run needs none. With two
  open requests an older answer can overtake a newer. Chunks of 2 (25 in the code)
  split, spill and collapse with five lines; four operations give an event merged of two, then undone, then overwritten.
* `schema` uses the real table list. Two faults hit both threads, or a start and its repetition.
  Three requests of a page are a stale answer for an earlier click, one for the present click, and a change. With two homes and a free child
  another window can put a child under a deleted home, on the page of the roles too.
* `query`: two brokers on one host let the first attempt of `findNewLeader` meet the same
  host, and a host with one port only lets the query go to an address where there is no broker.
  Two table names let another query's table be found by mistake or not be found; `POSITION` is 2
  instead of 5000, so that three records reach beyond it. The longest text left in the textarea is 2 instead of 1000.

### Deadlock

Checked in all runs but three, where the system really stops: the bootstrap ends
(`schema`), a query ends (`query`), and a listener may die with no restart left
(`offsets_cache`).

### Fairness

* `KafkaOffsetGetter`: weak fairness of `Subscribe` and `Consume`. The thread is started by the
  static initializer and blocks only for want of records, with either listener.
* `RecordSchema`: weak fairness of each loader's own steps; it is a thread that waits for nothing but
  its statements. Faults and restarts are not fair.
* `KafkaSqlParser`: weak fairness of the query's next step; a request ends by its timeout at the
  latest. Nothing is assumed of brokers, leaders, producers or other queries.
* `MetricsPage`: weak fairness of `Poll` (a `setInterval` that nothing clears) and, for each request, of its end
  by an answer or a failure (the browser gives up on a connection in the end); strong fairness of an answer coming at all, that is,
  not every request for ever fails. The user is not fair: `PageSettles` says that if he
  chooses no other range, the charts come to show the one he chose.
* The other modules have no liveness properties.

### What the violated runs show

1. `zk_shared_cluster`: `ZkServiceImpl` keeps its client in a field of an object that all
   requests of a service share, and uses the client it finds there whatever its
   cluster. `UnsharedIsRight` in `zk_fields` shows that with an object
   per user, and as long as no access throws, every access is right.
2. `offsets_second_cluster`: `run` calls `startOffsetListener` for one cluster after
   the other in one thread; the first call never returns.
3. `lag_gone_topic`: `findTopicPartition` throws for a topic without a node, and the
   only handler ends the run of the whole cluster before its alarms.
4. `counter_two_topics`: `updateLogSize` selects by `consumer_name` alone. With one
   topic per group (`counter`) the same property holds, and `ComparedWithLast` says what holds with any number: the size compared with is
   that of some topic of the same group.

### Further divergences met while modelling

They have no run of their own; the properties are stated for what is left.

On the server:

* The number of open clients is not limited by `kafka.zk.limit.size`: a refill does not
  count the clients that are out, and a client dropped by `release` or by an
  exception is never closed. After an exception the field of `ZkServiceImpl`
  keeps a client for the next call, of whatever cluster.
* A lag that was over its threshold all the time can be missed, as log end and offset are read at two
  moments; with offsets in Kafka a topic without running consumers is not looked
  at. The deletion of a group's offsets is skipped by the listener, so that the last offset stays in the cache.
  A topic without partition nodes yields a row without a group, on which `alert` throws. The offset
  page shows a negative lag when the log end cannot be read. The SASL listener takes binary keys and values for strings, so that commits are kept under other
  partitions and as other numbers; what was committed before the position a listener starts from is not in the cache until the group commits again.
* A crash between CREATE and INSERT leaves a table without its first rows for
  good. `ke_counter` is not among the tables that the bootstrap creates, and has no column for the cluster: groups
  of the same name in two clusters share its rows.
* `findNewLeader` changes the host and keeps the port of the old leader.
  `a_maxReads` ("Max read number") is the number of records a query waits for, and
  no maximum. A query whose table is replaced between `loadSchema` and planning answers with another
  query's rows when the table has the same name, and fails when it has not. `hasTopic` takes the first topic whose
  name occurs anywhere in the text, which need not be the table; the text is cut at
  the first "and", even inside a name, and loses its partitions then; the table's name is
  turned to lower case, so that `KafkaConsumerAdapter` cannot read a topic that has capitals; it seeks
  offset 0 of a short log, and where that is not kept any more goes on at the end.
* `SSORealm` throws for every user with a role to which a deleted resource is still assigned. Deleting a resource or changing
  a user's roles does not clear the cache; a clearing while an entry is read is followed by the old entry.
* `remove` of the statements on metrics deletes from `ke_trend` instead of `ke_metrics`, so that nothing is ever
  deleted there; the columns cut what is stored after 256 characters, which then cannot be parsed.

In the browser:

* In a picker of single days with linked calendars, the months of the left and the hidden right calendar drift apart; nothing shows it.
* The ranges of the metrics pages are computed when the page is loaded: after midnight "today" is yesterday. Answers are drawn
  whatever range they were asked for, until the next one.
* `user.js` keeps the clicked user in a global variable, `role.js` in a variable that a later click changes: a list that comes late is shown under another name,
  and a check in it changes the other. When the tree of the resources throws (a child under a home that another window deleted), the dialog of a role shows the tree
  of the role before, and its checks go to that role. Timers of an earlier message hide a later one.
* Trees: when frames come only after a transition is over (a page in the background), elements of hidden nodes may stay (`late` in the model).
  `index.js` throws for an answer without children.
* Form of an alarm: the topic of a group may be submitted with another group, if it was chosen before the group changed and the
  handler throws (`add.js:49`) or the ids are equal; after Escape, Enter picks the active item of the hidden list; a timer
  opens the list again after the focus is lost. While a token is edited it is not among the tokens, but still in the value that is submitted;
  what is typed and not yet a token is not submitted; with all tokens selected, Shift and an arrow key throw.
* Two queries under way write log and result in the order of their answers. After an answer without rows no answer becomes a table
  any more until the page is loaded again: the panels pile up, with columns and without rows. An error without a message leaves the log empty.
* Editor: lines the worker has highlighted and that then left the view keep their old styles (`EditorView`); an editor that is filled while hidden is
  not redrawn when it is shown. A click on a hint between a key and the next frame replaces the range before the key. The textarea is misread in eight
  sequences that TLC found and that `spoilt`, or the model of the user, leaves out of `InputIsRight`: (a) cutting a line without selection, when the line is longer than
  1000 characters, leaves "-" in the clipboard; (b) after pasting over a selection from the context menu, what is typed within five seconds
  is read with the zero-width mark; (c) an undo that restores the same range leaves the old text in the textarea, to be copied;
  (d) "Select all" from the menu of an empty editor, then typing: a character before the start is taken as deleted; (e) when the look-out
  for the menu's choice ends while the focus is elsewhere, and the focus returns without a click, the selection is read as typed;
  (f) "Select all" with a selection, then copying, has the mark in the clipboard; (g) what is typed and equal to the line
  copied last goes to the start of the line; (h) a choice within 50 ms after the menu opens, or an action before a choice is read, may be lost. The model
  assumes that the user opens no second menu within 50 ms and waits some tenths of a second for what he chose.

## 4. Proofs

| Module | Theorem | States |
|---|---|---|
| `ZkServiceImplProofs` | `IInvInvariant`, `TypeCorrect`, `PoolNeverOverfull`, `ClientsStayHome`, `OwnersAreUnique` | `KafkaServiceImpl`: the safety properties of the service in `kafka_pool` |
| | `ZkIInvInvariant`, `ZkTypeCorrect`, `OwnObjectsReleaseClients`, `OwnObjectsAreRight`, `OwnObjectsOneOwner` | `ZkServiceImpl`: all properties of `zk_fields` |
| `AlarmConfigureProofs` | `IInvInvariant`, `TypesAreRight`, `SuccessMeansStored`, `ListsAreRight`, `RegisterIsImplemented` | those of the server in `alarm`, and that the register is implemented |
| | `BoxesFit` | `AlarmForm`: the boxes of the form, in `alarm` |
| | `OwnersSubmitted` | `TokenField`: the field of the owners, in `offsets_cache` |
| `KafkaOffsetGetterProofs` | `IInvInvariant`, `TypeCorrect`, `OnlyCommitsAreCached`, `CacheIsNotBehind` | those of `offsets_cache` |
| `OffsetServiceImplProofs` | `LagIsRight` | `OffsetsQuartz`: the job's lag in `lag` |
| | `PageTypeCorrect`, `LagIsRightWithPages`, `PageLagCorrect` | all properties of `lag`, with the offset page |
| `PagesProofs` | `IInvInvariant`, `GrowthAddsUp`, `ComparedWithLast` | `CounterQuartz`: for any subscriptions, that the growth of a group's only topic adds up, and that a record is compared within its group, with the topic's own record where it is the only one |
| | `TablesTypeCorrect`, `PagesAreRight` | `TablePages`: tables and dialogs, in `kafka_pool` |
| | `PickedRangeIsAllowed` | `DateRangePicker`: the picker, in `counter` |
| | `PartsTypeCorrect` | the job and the pages side by side: the types in `counter` |
| | `MetricsTypeCorrect`, `ChartsShowWhatIsOffered` | `MetricsPage`: the types of the pages of the metrics, and that a chart's range is one the picker offers |
| `EditorProofs` | `AntiChangeUndoes`, `RangesEndApart` | `EditorText`: what undoes a change, and what a selection is made of |
| | `HistInvInvariant`, `EditorUndoes` | `EditorHistory`: the history of the editor in `counter` |
| `RecordSchemaProofs` | `IInvInvariant`, `TypeCorrect`, `StartsComplete`, `LossStaysBounded` | the safety properties of the bootstrap in `schema` |
| | `AccountsTypeCorrect`, `AccountsRight` | `SSORealm` and `SystemPages`: the accounts in `schema` |
| | `PartsTypeCorrect` | bootstrap and accounts side by side: the types in `schema` |
| `KafkaSqlParserProofs` | `IInvInvariant`, `TypeCorrect`, `ResultAscends`, `ResultHasNoOtherGap`, `AnswerHasOneFetch` | the safety properties of the query in `query` |
| | `QueryPageTypeCorrect`, `LogAndResultFit` | `SqlPage`: its part `LogFitsResult` of `PageTakesQueries` in `query` |
| | `HintsAreFit` | `SqlHints`: its part `HintsFit` of `PageTakesQueries` in `query` |

The assumptions are the named ASSUMEs of the modules, which say what kind of
value a constant is; TLC evaluates them in every run. The picker's is part of its initial
states: a page gives it a range that its own options allow, as those of the metrics pages do.

* **KafkaServiceImpl.** `OneOwner` is not inductive: a refill hands out serial numbers above
  `opened[p]`, which are new only if every client anywhere has a smaller one. `IInv` adds that
  (`Constructed`), the pool of each client (`HomePool`) and the bound.
  The lemmas about the pools say of each pool operator which clients are idle after it;
  `NextIInv` has one step per action of `Next`.
* **ZkServiceImpl.** `OneOwnerOverall` holds whatever throws, and then a field keeps its client for a later call, which may be for another cluster
  and release it to that cluster's pool. So the lemmas about the pools, which assume that pools hold their own clients, do not
  apply; `PoolsSound` says of all pools together that a client waits once and was constructed. A client out of the pools is in a hand
  (`Hands`: a call, a field in use, a result in flight), and `HandsSound` says that it is in one only and does not wait. A step can
  treat hands in four ways: `HandsGain`, `HandsMove`, `HandsRelease`, `HandsShrink`. `FieldsFollow` ties a user's place in its method to its
  field; `FieldsHome`, claimed until something throws, says that fields are empty between calls. All this needs that no object is
  shared; with sharing only types survive, as `zk_shared_cluster` shows.
* **AlarmConfigure.** Each call is at an operation of its own method (`StagesFit`). `SuccessIsStored` needs that the node which
  `update` is about to look up again exists, unless it was deleted during the call
  (`FoundOrRemoved`): only so may the write be skipped. `ListIsRight` needs that what was collected was seen (`Collected`) and that each
  configuration which stayed is in a group still to be listed, among the topics still to be read, or collected (`StillToCome`); when the groups
  are listed, that a node has its group (`GroupsExist`). Steps are grouped by what they do to nodes: `LookStep`, `WriteStep`
  and the rest; `WriteEffect` says what a write leaves alone. `StepRefines` maps `AddSet` and `RemoveDelete` to `Apply`, calls to `Ask`, answers
  and crashes to `End`, and everything else to a stutter, the creation of an empty node included.
* **KafkaOffsetGetter.** `NotBehind` speaks of the records between `from` and `pos`. It needs that
  positions lie inside the topic (`InTopic`) and that a redelivered old commit
  is followed by the newer ones before `pos` is reached again: since `pos` goes
  back with the redelivery, the claim shrinks and grows with it. The entry put
  last is always the record at `pos`, so that it is at least as new as all before. What a listener reads depends on `sasl`: `ReadRight` names the
  records that it reads as they were written, and the claims about commits are about those; what is read otherwise comes under a key
  whose entries are then at least as new (`Origin`).
* **OffsetsQuartz.** The sum of a topic is at most what its partitions showed together (`NeverOverstated`) only if each
  summand is: the log end read is not beyond the real one, which only grows (`LogSizeOK`), and an offset that
  is read is not beyond what was committed (`OffsetsOK`). For exactness `LagsOK` says what the sum is made of half-way: the partitions not in `parts`, without the
  one whose log end is in hand (`AddedUp`), for a topic that has been at rest (`Settled`). Lemmas about `Sum` over a finite set (of a
  set with one more element, of functions that agree, of a function below another) carry it from
  one partition to the next, for every number of them.
* **OffsetServiceImpl.** Job and page only read, so `PageInv` adds to `JobInv` that a row's lag when its offset was read is not beyond the one
  that the log end gives by now (`RowsOK`), and that the page reads a partition which has a row (`ReadingOK`).
* **CounterQuartz.** The theorems hold for any subscriptions. A row has what some topic of its group was counted with last (`RowsOfTheGroup`): an update gives
  all rows of the group the same size, that of the topic counted now, and an insertion is of a topic that was never counted, so that no row
  relies on it (`NeverCounted`). The record in hand is still the one in the table when it is replaced (`Found`). Where a topic is the
  group's only one (`Alone`), that size is its own, and what was announced adds up; this also needs that nothing is
  announced yet of subscriptions the loop has not come to (`Unannounced`). For a topic with others in its group neither can be claimed
  (`counter_two_topics`).
* **RecordSchema.** An undisturbed start is complete because of one loader that has not
  ended early. A loader ends early only at the primary key of a table whose
  rows someone else has inserted, who is then beyond that table (`Ahead`); following this
  from loader to loader leads to one that has not ended early (`OneLives`). A table
  without its rows has a loader about to insert them (`Attended`). All three are claimed while `faults = 0`;
  types and `Passed` are claimed always. `LossIsBounded` is not inductive: a loader that meets the primary key ends without a loss, and the
  bound would fall below the count. `LossInv` counts instead the tables that miss their rows and that nobody is about to insert into (`Unattended`): each
  was left by a loader that was stopped, and the others are no more than the loaders that insert (`AttendedByAsMany`).
* **SSORealm, SystemPages.** An entry that is half read grants what the roles read so far have (`EntryOK`), unless the tables changed after it was
  begun, and then it is `late` or a clearing is still to come (`clearing`). The pages' part has three
  invariants, each used by the next: `RealmInv`, `PagesInv` (what a page knows has its type, and a request under way is about what was clicked), and `TruthInv`
  (for an administrator who was never `hasty`: nothing is under way and what is shown is right, or one request is, and it will be right when the answer
  has been shown). The steps of the realm change no table and those of the
  pages no entry, so that each part is kept by the other's steps.
* **TablePages.** That a table ends with the part asked for last needs that this was answered, failed or is on its way (`LastDrawOK`);
  that it shows no other's rows, that a request carries the subject of its table (`RequestsOK`) and no table is drawn for a draw it
  did not ask for (`RowsOK`). `DialogsOK` says, page by page, when there is a link, and that it is the last click's.
* **DateRangePicker.** `RangeIsAllowed` says nothing of what is clicked half-way and then cancelled; `PickerInv` says that the picker shown has the old range to go
  back to, that this one was allowed, and that the field of the start is never empty. The months of linked calendars are in a row
  only where both are shown: with `singleDatePicker` the right one is hidden and moves by itself. `MonthsFit` says so, and that a calendar shows a month of
  a day that may be chosen or one beside it: its arrows stop there, which needs that the hidden calendar has no arrows to click (`Visible`). Each function of the picker has a lemma of what it keeps of an arbitrary picker.
* **MetricsPage.** A request takes its range from the label, and the label is an allowed range whether or not the picker is shown, by `PickerInv`. `MetricsInv`
  adds that what is asked for and drawn was once such a label: the options do not change, so that it is allowed still. `PartsTypeCorrect` has the job and these pages together,
  where the picker may have any options.
* **EditorText, EditorHistory.** `UndoRestores` says where all events together lead and is not inductive: an undo needs to know it of every
  event. In `HistInv` the events of a history are a *path* between texts (`Track`): one text for every place between two events, where
  a selection lies in the text at its place and a burst of changes leads, change by change, from the text after it to the one before.
  `done` is a path to the first text, `undone` one to the newest; every burst has a selection below it; and
  each generation that an event or the text has names its text, `ed.maxGeneration` being the last one named. An operation may make
  several changes and names its text only when it ends: `Doing` is the invariant within it (`Aim` and `Known` say what holds until then).
  Each function of the editor keeps `Doing`; `BecomesIs` leads back to `HistInv`.
  That a change is undone rests on texts alone: a text is what is before a change, what it replaces and what is after it, joined, and
  `Joined` is associative (`AntiChangeUndoes`, `TypingOnIsUndone`). With several cursors the changes of an operation are in a row,
  since a selection's ranges are apart (`RangesEndApart`), and are made from the last to the first, so that the ones still to come fit the text that is left
  (`MakeChangesIs`); deleting at every cursor first makes one change of those that touch (`AllKilledIs`).
  The functions fold changes and events. What a fold is step by step is proved for each of the seven operators that are folded,
  over the set of the positions where it is right. `Typed` is assumed to be a set of texts that have a line, and of no size.
* **AlarmForm.** What a box lists and selects is data of the box, the data of the topics are those of the group chosen (`Fits`), and so is the
  topic selected, except while it may be older than the group (`chosenLast`). Each function of magicsuggest has a lemma: it keeps the choice, or it
  makes another of the listed items. `SortAndTrim` lists the fitting data by their rank, with which the prover can reason by the cardinality of a set.
* **TokenField.** `FieldIInv` adds the types and that the input is never beyond the tokens. While an event is handled, the input may stand
  between tokens although none is edited, so the lemmas speak of two fields: one *follows* from the other (`Follows`) if it is sound,
  has all its tokens, and has the input in its place if the other had. Each function of the plugin has such a lemma. Two take tokens away and
  have one of their own: `Edit`, and `RemoveTokens`, where an input at the end is behind all tokens that are kept. How many tokens are kept before the input, and
  which is the n-th of them, is a matter of cardinalities; the lemmas about `Nth` and `ElementsAt` serve `AlarmForm` as well.
* **SqlPage.** `LogFitsResult` needs that a table asks for its rows by a number that no other table ever has, and that who waits for each answer
  has no query under way but the last (`WaitsForLast`). As long as nothing was refused there is one panel at most, a table with the number before `offset`; once something
  was, no panel is a table, whatever is appended and removed. Which panel is removed, and which one becomes a table, is the first with a
  number: its lemmas (`LeastNumber`, `OneRemoved`, `PanelsAre`) rest on the well-ordering of numbers.
* **SqlHints.** `HintsFit` does not hold within an event: a change of the text leaves hints of the old one. `Loose` is what
  every function of the completion keeps, whatever the text; `Fit` adds that the hints are those at the cursor, and is there again after `CursorActivity`, which ends the
  completion or takes from the widget the keys that could pick, and after the frame, which computes the hints anew.
* **KafkaSqlParser** (with the steps of `SimpleKafkaConsumer`). The order of a result needs that the
  next offset is greater than all that were read; but `Reset` may set it to 0, because
  `getLastOffset` answers 0 when the broker is no leader any more. `IInv` says instead that the next
  offset is greater or has expired (`AheadOrExpired`), which survives that: an offset is reset only
  after it has expired (`ExpiredAtReset`), so 0 has expired too, and nothing is read from there.
  `GapsCounted` counts a gap before it is closed, at the moment the next offset jumps. The lemmas about blocks of
  offsets say what an answer of the leader does to the order and the gaps, and four lemmas (`OrderKept`, `OrderEmpty`,
  `OrderReset`, `OrderRead`) stand for the ways a step can treat the result; each step
  uses one. `AnswerIsOneFetch` needs to know whose rows are under the key before the query
  loads its own (`RowsAreOneFetch`).

Only model-checked:

* liveness (`CommitsAreCached`, `StartEventuallyCompletes`, `QueriesEnd`, `PageSettles`), which is beyond the prover, as is ENABLED;
* `TreesAreRight`, `EditorIsRight`, and of `PageTakesQueries` the input: the layout of a tree, the tree of lines, the highlighting and the
  reading of the textarea are recursions over trees, lines and characters. What such a recursion gives for all inputs needs
  induction with an operator or predicate as its parameter, which the provers cannot instantiate. (Induction over finite sets and over numbers is possible, with
  the set of the good ones in the place of the predicate: so the sums of the lags and the folds of the editor's history were proved.)
* the type invariants `MCTypeOK` of the runs `kafka_pool` and `query`, as conjunctions: those of the parts named in the table are proved one by one.

## 5. Not modelled

* What `KafkaServiceImpl` reads and formats; JMX; four-letter commands; mail; fonts: input and
  output, or formatting.
* The text work of the SQL parser and Calcite's own: pure computation over text. The conversion of
  cells in `JSqlEnumerator`: data the properties do not tell apart.
* The binary format of the records of `__consumer_offsets`: abstracted to their kinds, and to which key and number they are as text.
* `MySqlRecordSchema.database`, which creates the database when it is missing, before the tables.
* Login, passwords, the session's menu: each a single statement or a filter in front of the rest.
* The server's side of the metrics: jobs that insert rows, queries that select them.
* The minified libraries (jQuery, Bootstrap, DataTables, Morris and others): external, modelled from how the pages use them.
* Of the plugins, what the pages do not use: times of day in the picker; d3's other layouts, shapes and scales; remote data, free entries
  and grouping in magicsuggest; typeahead in the token field; in CodeMirror marked text, folding, line wrapping, right-to-left text, gutters, old browsers.
  And what only a browser can do: measuring, painting, scrollbars. In `EditorInput`, shift-click, several ranges and sequences of
  keys; in `EditorView`, lines of different height.
* The pages `create.js`, `brokers.js`, `navbar.js`, `signin.js`, `error.js`, `notice.js`, `zkcli.js`, `mock.js`, `offset.realtime.js`: each sends a request and shows its answer. Two things were
  noticed there: `zkcli.js` looks for "ls" before "get", so that getting a path with "ls" in it is sent as `ls`; `mock.js` hides a message by the timer of an earlier one.

## 6. Plan

Done: pools and their borrowers; the shared field; alarm configuration and its register; offset cache; lag statistics and the
offset page; counter; bootstrap; queries from text to answer; accounts; metrics pages; trees; tables; the form of an alarm; the
query page and its editor.

What is left, in order:

* Models: the commands of the editor's key maps with several ranges; `MBeanQuartz` and the retention of `ke_metrics`; `KafkaPartitioner` for the smallest integer.
* Abstract specifications: the offset cache as a map that follows the committed offsets; the bootstrap
  as one atomic creation per table; the editor's document as one text that all its structures follow.
