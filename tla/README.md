# Verification of ap2pmsg

ap2pmsg is a peer-to-peer messenger: a C library (`lib/libap2p.c`,
`lib/utilap2p.h`) over SQLite and TCP, and a Rust command line (`ap2pcli`). This
directory holds TLA+ models of it, the TLC configurations that check them on
small instances, and theorems checked by TLAPS. Paths and line numbers below are
relative to `src/`; a bare number is a line of `lib/libap2p.c`.

    tlc -config conn_faults.cfg MCConn.tla          # one run
    tlapm Ap2pConnProofs.tla                        # one proof module

## 1. The system

A **node** is one database `ap2p_storage.db` and the processes that open it. No
two processes share memory. The listener (`ap2pcli listen`) runs until Enter or a
signal; every other subcommand is a process that does one thing and ends.
A node talks to a node by **parcels**, each sent on a TCP connection of its own;
the answer to a parcel is another parcel, sent the other way to the address stored
in the database. Nothing is ever sent twice, nothing but TCP's own connect has a
timeout, and a parcel that could not be sent is only logged.

| Component | State | Operations | What makes it correct |
|---|---|---|---|
| Connection handshake (359-560, 740-880) | `Connections` rows: `peer_id`, `self_id`, `peer_name`, `status` | `ap2p_request_connection`, `ap2p_decide_on_connection`; the listener's handlers of CONN_REQ, CONN_ACK, CONN_REJ, CONN_ACC | a connection is shown as accepted only if the peer accepted it, and then each end holds the id the other looks it up by; a request is decided once; no reply reaches a row it is not about; a request and a decision eventually show at the other end |
| Messages (562-651, 881-1030) | `Messages` rows: `shared_msg_id`, `time_recieved` | `ap2p_send_message`; handlers of MSG_SEND and MSG_RCV | a message is stored at most once at the peer, under the right connection; one shown as received was received; messages go over accepted connections only |
| Local state (164-249 and `State`) | `selected_conn`, `self_addr`, `self_port`, `self_name`, `listen_addr` | `ap2p_state_get`, `ap2p_state_set` (`conn select` sets `selected_conn`) | what one process sets another reads; defaults exist |
| Storage (67-160, `utilap2p.h` 126-166) | the database file, its locks | `open_db`, `prepare_sql_statement`, `create_*_table` | tables and defaults are made once and whole; nobody waits for a lock; what a node tells its peer is committed |
| Listener loop (653-740) | listening socket, accept queue of one, descriptors | accept, read the kind, dispatch, reply | a parcel is read at most once and only if it was sent whole; two listeners do not block one another |
| Parcel encoding (`utilap2p.h` 52-70, lengths and offsets of 10-28) | - | `pack_long`, `unpack_long`, `pack_int`, `unpack_int` | the reader of each kind takes out what its writer put in |
| Listings (251-357) | - | `ap2p_list_connections`, `ap2p_list_messages` | columns they copy are not NULL; the rows fit the caller's buffer |
| Command line (`ap2pcli/src/main.rs`, `libap2p.rs`) | - | parse, call one library function (`state` calls `ap2p_state_get` or `ap2p_state_set`) | each subcommand calls the function it names |
| Address discovery (`utilap2p.h` 176-240) | - | asks the operating system | input and output only |
| Build files, vendored SQLite | - | - | third-party or build time |

How they interact: the commands and the listener of a node meet in the database
only; two nodes meet in parcels only. The user closes the loop: what the
listener stores, `conn list` shows, and `conn decide` acts on.

What is hard here:

- **Concurrency.** Each SQL statement is an autocommit transaction, so between any
  two of them the listener or another command may change what was read
  (`conn decide` checks a status it read one statement earlier).
- **Order.** Parcels have no order among them: the acknowledgement of a request
  is sent by the listener, the decision by a command, on connections of their
  own, and either may be read first.
- **Loss.** A peer that does not listen loses the parcel for good.
- **Crashes.** Any process may be killed between two statements, or between the
  statement that stores a fact and the parcel that tells the peer of it.
- **Identity.** A reply is matched to a row by `peer_id` alone; ids come from
  `rand()` seeded with the time in seconds.
- **Storage.** A statement that is stepped and not finalized keeps a lock;
  `INSERT ... RETURNING` commits only when finalized.

`PROJECT.json` lists each as a hazard at its line, with the property that would
catch it, or with the reason why none can.

## 2. Modules

| Module | What it is |
|---|---|
| `Ap2pNode` | what every part shares: `Connections` rows, parcels, the network, the processes of a node and how they start, send, end |
| `Ap2pConn` | the handshake: commands and handlers, `Next`, `Fairness`, properties |
| `Ap2pConnInv` | the inductive invariants `IInv`, `OnceInv`, `SoloInv` and `AgreeInv` |
| `ConnAgreement` | abstract specification: what the handshake promises the two users |
| `Ap2pConnAbs` | the refinement mapping from `Ap2pConn` to `ConnAgreement` |
| `Ap2pConnProofs` | proofs of `IInv` and what follows from it; that a request is offered once |
| `Ap2pConnSoloProofs` | proofs that need one command at a time |
| `Ap2pConnAgreeProofs` | proof that `Ap2pConn` implements `ConnAgreement` |
| `Ap2pMsg` | messages over connections the handshake has left: commands, handlers, `Next`, `Fairness`, properties |
| `MsgDelivery` | abstract specification: what users are promised about messages |
| `Ap2pMsgAbs` | the refinement mapping from `Ap2pMsg` to `MsgDelivery` |
| `Ap2pMsgInv` | `MsgInv`, the inductive invariant of messages, and what it claims of unsettled tables (nothing) |
| `Ap2pMsgProofs` | proofs of `MsgInv` and what follows from it; that `Ap2pMsg` implements `MsgDelivery` |
| `Ap2p` | a whole node: `Ap2pConn` and `Ap2pMsg` over one table, one listener, one set of commands |
| `Ap2pInv` | its inductive invariant, also named `MsgInv`: what messages rest on while rows change status |
| `Ap2pProofs` | proofs that its handshake is that of `Ap2pConn`, and of `MsgInv` and what follows from it |
| `ParcelNet` | what those three take the network to be, alone: parcels handed over in one step, read once |
| `Ap2pListener` | the same call by call: connect, send, accept, recv, queues, descriptors; implements `ParcelNet` |
| `Ap2pListenerInv`, `Ap2pListenerProofs` | its inductive invariant `LinkInv`, and the proofs of that and of the refinement |
| `Ap2pStore` | one database file under many processes: tables made on first use, defaults, locks, commits |
| `Ap2pStoreInv`, `Ap2pStoreProofs` | its inductive invariant `StoreInv`, and proofs of its safety properties |
| `ParcelCodec` | the bytes of every parcel, written and read |
| `ParcelCodecProofs` | what is read is what was written |
| `MCConn`, `MCMsg`, `MCAp2p`, `MCListener`, `MCStore` | constants of the runs |

How they fit: `Ap2pNode` is the vocabulary of `Ap2pConn`, `Ap2pMsg`, `Ap2p` and `ParcelNet`.
`Ap2p` takes both components whole by INSTANCE. What the upper models assume is shown below
them: one step per parcel by `Ap2pListener`, records for parcels by `ParcelCodec`,
and statements that run whole or fail whole by `Ap2pStore`, whose findings (a commit that fails
unseen, a lock left behind) come back up as the fault `"commit"` and the variable `held`.

### State

- `conns[n][c]` is row `c` of the Connections table of node `n`, or `NoRow`. Of
  the columns, `peer_addr` and `peer_port` are one field `peer`; `peer_name`
  is the Boolean `named` (NULL or not); `online` and the two times are left out:
  nothing branches on them. `by` is a ghost: which of the two INSERTs made the row.
  Rowids are given upwards, and no row is ever deleted.
- `net` is the set of parcels a peer's kernel has taken and its listener not yet
  read. A set, since parcels have no order. The field `src` of a parcel is in the
  bytes of a CONN_REQ only; handlers of other kinds do not use it, and it serves the
  properties.
- `lst[n]` is the listener of `n`: off, at the head of its loop, or about to send
  a reply. `cmd[n][k]` is a command in slot `k`: none, holding a decision it has
  not yet written, or about to send its parcel.
- `msgs[n]` is the Messages table of `n`, a set of rows told apart by conn_id and
  shared_msg_id as UNIQUE demands; `received` says that time_recieved is not NULL, and
  the ghost `out` that the row is the sender's own. `sel[n]` is selected_conn: a row's
  conn_id, the default (`NoConn`), or `Null` when the State table has lost its row; `Unset` says which of these
  it may be before the first `conn select`.
  `held[n]` says that the listener holds a shared lock for good.
- In `Ap2pMsg` the Connections tables do not change: each behaviour starts from one of
  `Tables`, tables a finished handshake can leave. `MCMsg` gives three to `msg_faults`: both
  connections linked; one whose CONN_ACC was lost; and one that two
  `conn decide` have accepted, so that the requester knows an id that is gone. In `Ap2p` the tables
  start empty and the handshake goes on while messages travel.
- `Ap2pListener`: `queue[n]` is the kernel's queue of connections to `n` not accepted yet, `link[m]`
  the state of the connection that carries parcel `m`, `seat[n]` and `proc[n][k]` the call a
  listener or a command is at, `fds[n]` the descriptors the listener has open. A connection
  carries one parcel, so the parcel stands for it; each letter is sent once, since two identical
  parcels at one time would be one element of `ParcelNet`'s set.
- `Ap2pStore`: `made` and `keys` are the tables and the State rows of the file, `proc[p]` where
  process `p` is in its program (`Programs`: the statements each function runs, in order,
  with the tables each names and the one its caller would create), `leaked` who has left a
  SELECT unfinalized, and `disturbed` a ghost for `DefaultsWhole`.

### Actions

A step is one SQL statement or one `send_parcel`, with the local computation around
it, since nothing else is seen by another process.

| Action | Code |
|---|---|
| `Request` | 359-420: generate `peer_id`, INSERT (status defaults to pending), build CONN_REQ |
| `DecideSelect` | 436-475: SELECT the row, refuse unless it awaits review |
| `DecideReject`, `DecideAccept` | 477-551: UPDATE by `conn_id`, build CONN_REJ or CONN_ACC |
| `DecideCollide` | 531-534: UNIQUE fails the UPDATE, the command exits |
| `HandleReq` | 740-788: INSERT with status self_review, build CONN_ACK |
| `HandleAck`, `HandleRej`, `HandleAcc` | 790-880: UPDATE every row with the parcel's id as `peer_id` |
| `CommandSend`, `ListenerSend` | `send_parcel` (`utilap2p.h` 72-108) and the end of the command, or the head of the loop |
| `CommandExit` | killed, or one of the error exits |
| `DropParcel` | a parcel read in part, or a handler's `continue` after a failed statement |
| `StartListening`, `StopListening` | 653-711; 713-719 or killed |
| `SelectConn` | `conn select`: ap2p_state_set (202-241) |
| `SendInsert` | 562-597: INSERT with MAX+1, RETURNING; the commit is that of sqlite3_finalize and may fail unnoticed |
| `SendLookup`, `SendRefused` | 599-640: SELECT of the connection selected by now; parcel, or error exit with the row left |
| `HandleSend`, `HandleSendRefused`, `HandleSendUnknown` | 881-936: SELECT by `peer_id`; the second leaves its lock behind (921) |
| `Store`, `StoreFails` | 938-990: read the content, INSERT, build MSG_RCV; `continue` when the number is taken |
| `HandleRcv` | 996-1030: UPDATE by number and connection |
| `DecideBlocked` (`Ap2p`) | 493, 531: the UPDATE meets the lock of the node's own listener, and the command exits |
| `Connects`, `ConnectFails`, `Sends`, `SendFails` (`Ap2pListener`) | `utilap2p.h` 81-107, in a command or in the listener |
| `Accept`, `Peek`, `Read`, `ReplyConnect`, `ReplySend` | 721-737, `utilap2p.h` 109-121, 784: one turn of the loop, a call at a time |
| `LogFails` | `utilap2p.h` 48: `ap2p_log` opens the log for each line and does not look at fopen's result; with no descriptor left the listener crashes |
| `TableMissing`, `CreateTable`, `InsertDefaults` (`Ap2pStore`) | `prepare_sql_statement` and the three create functions |
| `Begin`, `EndRead`, `NotFound`, `Commit`, `CommitFails`, `Fails` | one statement: lock taken, then done, finding nothing, committed, rolled back, failed |
| `End` | Enter, a signal, or a crash at any point |

Modelling decisions a reader should know:

- `generate_id` may return any value of `Ids`, also one used before, here or at
  the peer.
- An SQL statement runs whole or fails whole (fault `"sql"`: busy, disk, a missing
  table). The two INSERT ... RETURNING commit in `sqlite3_finalize`, whose result nobody reads:
  a commit that fails there (fault `"commit"`, or a lock the listener holds) takes the row back
  and the code goes on. Where the locks come from is the matter of `Ap2pStore`.
- SQLite is modelled by its rollback-journal locking (`unixLock` and `pager_wait_on_lock` of
  `lib/sqlite3/sqlite3.c`): readers share, one process
  reserves, and a commit needs that nobody else shares. No busy timeout is set, so a statement that
  meets a lock fails at once. A prepare that finds the schema locked fails like a step
  (`Fails` in phases `next` and `again`).
- A `self_name` that comes back NULL is not looked at (388, 511) until `strncpy` reads it: the
  process then crashes, after its write was committed. `Ap2pStore` has this as `nameless`.
- The address a CONN_REQ carries is the right one: `self_addr` and `self_port` of
  `State` are the node's own.
- `ap2p_decide_on_connection` on a `conn_id` with no row checks a status it never
  wrote (472). Every build tried takes the error exit, which changes nothing, so
  there is no step for it.
- `recv` returning -1 is taken by `recv_parcel` for success (`utilap2p.h` 110), and
  the handler goes on with a buffer nobody filled. After the peek at 733 a byte is in the socket's
  buffer, and Linux hands out what is there before the error of a reset, so -1 does not come there; a connection
  that breaks later is a short read, which drops the parcel (`Read`, `DropParcel`).
- Without a row for selected_conn the subquery of 574-575 is NULL: MAX over `conn_id = NULL` finds no row, so the
  number is 1 each time, NULL is in no pair of UNIQUE, and the SELECT of 607 finds nothing, so the
  command ends with the message in the table and nothing sent. Of such rows those with one content are one
  element of `msgs[n]`: no property tells them apart.
- Descriptors: a connection the listener accepts is never closed; one it opens is closed only when
  connect or send fails. `MaxFds` counts those only; the listening socket, the database and the log
  have theirs besides.
- The kernel's queue has `QueueLen` places. `listen(sock, 1)` gives two on Linux and one
  elsewhere; the runs take one, the harder case.
- A node may ask itself for a connection: `Request` allows any node as peer, as the
  code does, and so both roles meet in one table.

Operators whose comment says *Variant* are the definition that follows them with a
plausible mistake made in it (an id bound to the wrong column, a check dropped, a
parcel sent again). No specification uses them; putting one in place of its original
shows that a property notices.

## 3. Properties and runs

| Run | Instance | Checks |
|---|---|---|
| `conn_faults` | 2 nodes, 1 command each at a time, 2 ids, 2 rows; parcels lost, processes killed or stopped, statements failing | the safety properties, `AgreeInv` (the invariant that is proved), `DecisionIsFinal`, `IdsStay`, and that `Ap2pConn` implements `ConnAgreement` |
| `conn_concurrent` | the same with 2 commands each at a time, one request of each node | `OnceInv` (the invariant that is proved), `OneOfferPerRequest` |
| `conn_live` | 2 nodes, 1 command, 2 ids, 3 rows, no fault, fairness | `RequestsAnswered`, `DecisionsArrive` |
| `conn_race` | 2 commands | finding: `DecisionIsFinal` fails |
| `conn_reopened` | 1 command, no fault | finding: `ResolutionSticks` fails |
| `msg_faults` | 2 nodes, 1 command each, 2 connections linked, or 1 half open, or 1 stale; selected_conn at first the default or lost; 2 messages one way, 1 the other; lost parcels and processes, failing statements | `TypeOK`, `ReceivedIsTrue`, `StoredWasSent`, `SettledInv` (the invariant that is proved), and that `Ap2pMsg` implements `MsgDelivery` |
| `msg_live` | 1 connection, the same messages, no fault, fairness | `SentIsReceived` |
| `msg_select` | 2 commands, 2 connections, no fault | finding: `ReceivedIsTrue` fails |
| `ap2p` | 2 nodes, 1 command each, 2 rows, 1 request and 1 message of each user, from empty tables, no fault | `StoredByConsent`, `UnsentIsPending`, `ReceivedAtOtherEnd`, `MsgInv` and `ConsentInv` of `Ap2pInv` (the invariants that are proved), and that the handshake is that of `Ap2pConn` |
| `store` | 2 commands (request, accept, `state` set) and the listener with all its handlers, a new file, killed anywhere, fairness | `DefaultsWhole`, `HandshakeIsWritten`, `StoreInv` (the invariant that is proved), `EveryoneEnds` |
| `store_unseen` | 1 command of every kind and the listener | finding: `MessageIsWritten` fails |
| `listener` | 2 nodes, 1 command each, both ways a request (answered) and a parcel that is not; queues of 1, 3 descriptors; losses, kills, stops, fairness | `LinkInv` (the invariant that is proved), `ListenerComesBack`, and that the calls implement `ParcelNet` |

What the properties say:

- `RepliesNameRequests`: every reply under way names a request its receiver made of
  its sender. The handlers match by `peer_id` alone, so nothing else keeps
  a reply off rows it is not about.
- `OffersHaveRequests`: a row up for review has its request at the peer, through crashes
  and losses.
- `OneOfferPerRequest`: a user is asked about a request at most once.
- `RowsReadable`: the columns the listings and `ap2p_send_message` copy
  are not NULL in the states in which they copy them.
- `AcceptedByPeer`: nobody is connected unasked.
- `LinkedWhenAccepted`: an accepted connection has matching ids at both ends, and both rows
  accepted.
- `DecisionIsFinal`: a decided row does not change again.
- `IdsStay`: a row keeps its peer, and each of its ids once it has it, whatever becomes of its status: what a
  message was sent on is for good.
- `ImplementsAgreement`: asked, offered once, answered once, and what the requester
  is shown was true of it. `Learn` in `ConnAgreement` lets news come late, twice or
  overtaken by older news, since that is what the code does (see `conn_reopened`).
- `RequestsAnswered`, `DecisionsArrive`: with listeners that stay up, a request leaves
  pending and a decision shows at the requester.
- `ReceivedIsTrue`: a message shown as received is stored at the peer, with that content.
- `StoredWasSent`: what a listener has stored, the user at the other end of that connection has
  written.
- `ImplementsDelivery`: over time, a message arrives at most once, unaltered, on its own
  connection, is never overwritten, and is confirmed only after it has arrived. That it may never
  arrive is part of the promise, since the code promises no more.
- `SentIsReceived`: without losses only a collision of numbers keeps a message from arriving.
- `OnceInv`, `AgreeInv`: the inductive invariants of the handshake: where a request is while it
  is under way, and what each reply under way says is so (section 4).
- `SettledInv`: over settled tables every parcel under way says what is so (`MsgInv`, section 4).
- `StoredByConsent`: what is stored was written at the other end of that connection, after one user
  asked and the other accepted, whatever became of the rows since.
- `UnsentIsPending`: a message about to be sent is in its sender's table, on the connection it is sent
  on; only the lock of a refused message (921) can have kept it out.
- `ImplementsHandshake`: what happens to Connections tables, to parcels of the handshake and to the processes
  that send them while messages share all three is what `Ap2pConn` allows. The lock of a refused message
  (921) shows as a statement that fails.
- `ConsentInv`: a listener about to store a message has looked it up by a row with consent, and what is stored has
  consent. The id it goes by must not find another row by then (UNIQUE on `peer_id`).
- `MsgInv` (of `Ap2pInv`), `LinkInv`, `StoreInv`: the inductive invariants of `Ap2p`, `Ap2pListener`
  and `Ap2pStore` (section 4).
- `ReceivedAtOtherEnd`: as `ReceivedIsTrue`, but of the ends of a connection whose status changes
  meanwhile, a late CONN_ACK included.
- `DefaultsWhole`: State has all its defaults unless its creator was killed, or another process was at
  work, between CREATE (126) and INSERT (153): no table name or lock loses them otherwise. In those two cases the code does
  lose them, for good.
- `HandshakeIsWritten`: no CONN_REQ, CONN_ACK, CONN_ACC or CONN_REJ is sent whose row is not committed.
- `EveryoneEnds`: no process waits for another: statements that meet a lock fail.
- `ListenerComesBack`: a listener that leaves its loop for a parcel comes back or ends, though two may
  be connecting to each other with both queues full: connect's timeout is what saves them.
- `ImplementsNet`: sending is one step and a parcel is read at most once, after all calls of its
  sender have worked.

**Bounds.** Two nodes are a requester and an acceptor, each also both at once (each may
ask the other, and itself). Two rows let a node hold a request of its own
beside one it was asked for, or two of either, so that a lookup by id can hit the wrong
row; two ids make collisions happen, within a table (UNIQUE) and across tables. Two
commands give every race of a command with a command, and one command every race with
the listener. `MaxRequests` is 2 (1 in `conn_concurrent` and `conn_live`) and `ConnIds` bounds rows: when a table is full,
the parcel that would add a row stays unread, which restricts no safety property; `conn_live`
has 3 rows, more than 2 nodes with one request each can fill. Symmetry
is used in the safety runs only. Deadlock is not checked: the system stops when the tables
are full and no parcel is left, and users need not act. For messages, two one way and one the other are the least with which
messages follow each other and cross on one connection while another has the same numbers;
two contents tell one message from another, and the ids of one connection
occur in the other. `MaxNum` (3) is enough for all of them on one connection. `MaxSends` bounds
what each user writes. `Unset` is the default or no row in the message runs, and the default in `ap2p`, where one
message without a connection is the same with either. `ap2p` has one message of each user: messages that cross, over rows in every
status; what follows a message is `msg_faults`' matter. In `store`, two commands and the listener
give every pair of programs that meet, and a third holding a lock; the programs left out of it (reject,
send, select, get, the listings) run statements of the same kinds. In `listener`, two listeners
that reply to each other and one more parcel each way fill both queues of one, and three
descriptors run out within the four parcels.

**Fairness.** A listener that runs keeps going round its loop and a started
command runs to its end: processes the scheduler does not starve, so weak fairness of
`ListenerSend`, `Handle`, `CommandSend` and the decision's UPDATE, and for messages of
the steps of a `msg send` once begun and of the listener's INSERT. What a user
starts or stops is not fair. Liveness of the protocol is claimed for nodes that listen from the
beginning and without faults: with loss it is false, as the code never repeats a parcel. In
`store` each process that runs takes steps (`Step`), and locks fail rather than wait. In `listener` a
listener's calls (`Pass`) and a command's are weakly fair, connect because TCP ends it by a timeout;
starting, stopping and killing are not. `Peek` waits for the peer: the fairness of commands stands for
peers whose processes go on or end. A host that vanishes without a word keeps the listener
in `recv` for ever (733), and nothing is claimed then.

### Findings

1. `conn_race`. The status checked at 472 is not part of the UPDATE's condition, so
   two `conn decide` of one row both take effect, and the peer is told both.
2. `conn_reopened`. A CONN_ACK read after the decision sets a resolved row back to
   peer_review (801), for good.
3. `msg_select`. selected_conn is read twice (574, 607): a `conn select` in between stores the
   message under one connection and sends it on another, and a message the peer never stored
   ends up shown as received.
4. `store_unseen`. The commit of an INSERT ... RETURNING fails in `sqlite3_finalize`, unseen (597, 980),
   when another process reads, or when the listener keeps the SELECT of a refused message (921): the
   message is sent, or acknowledged, without a row.

Known behaviour that the passing properties allow for, and that a reader of the code should know:
a row stays pending though the peer has the request, when the acknowledgement is lost (784, against
the comment at 32); a row is accepted at one end only, when the CONN_ACC is lost (546); messages
that cross get one number and both are dropped (575, 106; the exception in `SentIsReceived`);
after a message on a connection that is not accepted no command of that node can write until
the listener ends (921; `held` in `Ap2p`); `ap2p_send_message` returns -1 whatever happened (650).

## 4. Proofs

`Ap2pConnProofs` proves, for any sets of nodes, commands, rows and ids, any
`MaxRequests` and any faults:

- `Inductive`: `Spec => []IInv`, and from it `TypeCorrect`, `RepliesFindRequests`,
  `OffersFindRequests`, `RowsAreReadable` and `ConnectedByConsent`.

The argument. None of these is inductive alone. `AcceptedByPeer` holds of the handling of a
CONN_ACC only if the parcel comes from a node that accepted the request
(`ParcelsHaveRows`); a parcel has that property when it is built only if what the
deciding command remembers of its row is still so (`DecidingOffers`); and the row the parcel's
id finds at the requester is the one that made the request only because of
`PeerIdsDiffer`. `AskedRows` and `OfferedRows` separate the columns of the two kinds of row:
a reply never touches an offered row, since `RepliesNameRequests` gives an asked row with that
`peer_id` and `PeerIdsDiffer` makes it the only one. That is why `status` of an offered row is
changed by its own user alone. The proof has one lemma per action; steps that leave the
tables alone and add no parcel share `QuietStep`, those that add a row share `NewRow`, and
the three replies share `ReplyRows`.

The same module proves, with any number of commands and every fault, `OnceInductive`
(`Spec => []OnceInv`) and `OfferedOnce`: a user is asked about a request once. The receiver's INSERT
has no check of its own (760), so all rests on the CONN_REQ: it is in one place at a time, a command or
the network (`ReqsInOnePlace`), hence gone when it has been read; and while it is under way
its receiver has no row for it (`ReqsUnmade`). A new request keeps both because its id is new to
its table (UNIQUE) and, by `OffersHaveRequests` and `ParcelsHaveRows`, every row and parcel of that id and sender
has a row of that table behind it: there are none yet.

`Ap2pConnSoloProofs` assumes one command per node at a time (`OneCommand`) and proves
`SoloInductive`, `LinkedBothWays` and `DecisionsAreFinal`. The strengthening is that a row
being decided still awaits the decision (`DecidingAwaits`), so that it is decided once and
a CONN_ACC under way keeps telling what its sender's row says (`AccsTell`); and that what a requester was
ever told stays so (`ToldIsInForce`), even when a late CONN_ACK has taken its row back to
peer_review. `conn_race` shows that the assumption is needed.

`Ap2pConnAgreeProofs` proves, for one command at a time, `AgreeInductive` (`Spec => []AgreeInv`) and `Agrees`:
`Ap2pConn` implements `ConnAgreement`. The mapping takes a CHOOSE over rows; `Shown` states it by rows, since
`PeerIdsDiffer` leaves one asked row and `OneOfferPerRequest` one offered row of a request. A step
writes one asked row, one offered row or none (`AskedShown`, `OfferShown`, `NothingShown`). What
remains is that the abstract step is allowed: `OnceInv` makes `Offer` the first, `DecidingAwaits` makes
`Decide` the first, and `AccsTell` with `NewsIsTrue` make what `Learn` shows true. `IdsAreForGood` (`Spec => IdsStay`)
follows from the same invariant: the only write that could change an id that is there is the self_id of a CONN_ACC, and
`AccsTell` with `ToldIsInForce` make it the id the row already has.

`Ap2pMsgProofs` proves of messages, for any sets of nodes, commands, rows, ids and contents:

- `MsgTypeCorrect`: `Spec => []TypeOK` on settled tables, with any number of commands and every fault;
- `SettledInvHolds`: `Spec => []SettledInv`, the invariant as the run checks it: whatever tables a behaviour starts
  from, if they are settled then `MsgInv` holds;
- `MsgInvHolds`: `Spec => []MsgInv`, and from it `StoredWasSentHolds` and `ReceivedIsTrueHolds`, with three
  assumptions, each needed: the tables are settled (`TablesSettled`; otherwise a number may be confirmed by a peer that the
  row does not reach back to); a node runs one command at a time
  (`OneCommand`; `msg_select` shows why); no commit fails unseen (`"commit" \notin Faults`; then a MSG_SEND may
  have no row, and its number be given again). Losses, kills, stops and failing statements are allowed.

The argument. `ReceivedIsTrue` is about a row that the UPDATE of HandleRcv finds by number; that it is the
row the peer has stored needs three facts at once. The MSG_RCV is true (`HasStored`): somebody
has stored that number on a row that answers to this node. What was stored was sent
(`StoredWasSent`): some user wrote that number on a row that reaches the storing row. And `Settled` makes
that row the one the answer comes back to. Then `NumsDiffer` (UNIQUE) makes the row marked and the row
written one row, so the contents agree. For `StoredWasSent` in turn a MSG_SEND must be true from
the SELECT that builds it (`Drafted`: the row inserted is on the connection selected, hence one command at a
time) to the INSERT at the peer (`Bound`). Rows are never removed and change only in time_recieved, so
all these facts persist: `Grows` and the lemmas `*Kept` say so once, and `StepInv` reduces each
action to what it adds. A refused MSG_SEND, and with it the lock at 921, cannot happen on settled
tables (`WroteReaches`).

It proves `Delivers` under the same three assumptions: `Ap2pMsg` implements `MsgDelivery`.
The mapping by rows is `BoxShown` (`NumsDiffer` leaves one row of a connection and number) and `PeerShown` (on
settled tables a row reaches one row at most). Three actions write messages, and each is one abstract step or
shows nothing: `SendInsert` writes with a number above all there are; `Store` arrives, since
the parcel is true (`Wrote`) and its number free; `HandleRcv` lets the writer learn, since the row it marks is
stored at the peer (`ReceivedIsTrue` of the next state), as received from the start (`ReadOnArrival`).

`Ap2pProofs` is about a whole node, where the tables are not settled but change under the messages. It has four parts.

1. `MessagesTakeNoPart` (`Spec => ImplementsHandshake`), for any number of commands and every fault: hide the messages, and
   what is left is `Ap2pConn`. A listener that stores a message is, to the handshake, in its loop, and a command that sends one is
   idle (`connLst`, `connCmd`, `connNet`). Each kind of step is a step of the handshake or no step at all
   (`StepSeen`): `DecideBlocked` is a statement that fails; a message dropped, sent or refused is
   nothing. `"sql"` is among the handshake's faults, since a lock looks like one. So the invariants of `Ap2pConn` hold of a node that
   sends messages: `Typed` carries `IInv` over, with the types of the rest, and `HandshakeHolds` reads off it what a whole node's handlers and
   commands rest on (`RepliesNameRequests`, `OffersHaveRequests`, `RowsReadable`, `AcceptedByPeer`); the
   proofs below take `AgreeInv` from there (`H!AgreeInvNext`, through INSTANCE).
2. `MessagesRestOnHandshake`: `Spec => [](MsgInv /\ H!AgreeInv)`. In `Ap2pMsg` a row that a message came over stays accepted; here
   it may be taken back to peer_review by a late CONN_ACK while the message is under way. So this `MsgInv`
   never mentions status: two rows meet (`Meets`) when one's `self_id` is the other's `peer_id`, and that is for good (`IdsStay`, as
   `RowsStay`). `MeetsEnds` and `OneOtherEnd` take from `AgreeInv` that meeting rows are a request and its offer and that
   a row meets one row. Nothing written or stored is taken back (`Grows`, the `*Kept` lemmas); what a step sends, stores or
   marks is true when it does so (the `*Owes` lemmas); `InvKept` puts the two together.
3. `NoMessageWithoutConsent`, `UnsentArePending` and `ReceivedAreStored` follow, with the consent in the first read off the two
   ends (`MeetingIsByConsent`).
4. `ConsentUnderEveryFault`: the consent half of `StoredByConsent` (`ConsentGiven`) needs neither the lock nor the sender's
   table, so it holds with every fault, one command at a time. `ConsentRestsOnHandshake` is its invariant: an accepted row has
   consent (`AcceptedByConsent`, from `AcceptedByPeer` and `OfferedRows`), consent is for good (`ConsentedKept`), and the row
   the INSERT finds (`ConnOf`) is the one looked up before it, since ids stay and differ (`StepStores`, `ConsentNext`).
   With two commands the first half would fall: a second acceptance takes the id from the row in between.

Parts 2 and 3 assume one command at a time, as `conn_race` and `msg_select` require, and `Faults \cap {"stop", "crash", "commit"}`
empty. Those three are what the properties do not survive: a listener that ends releases the lock (`held`), and the message
that the lock kept out is then in no table though it was sent; a commit that fails unseen has the same effect. Lost parcels and failing
statements are allowed.

`Ap2pStoreProofs` proves, for any processes, commands and starting programs, and kills at any point, `StoreInvHolds`
(`Spec => []StoreInv`), `DefaultsAreWhole` and `HandshakeWasWritten`. `HandshakeIsWritten` speaks of the moment of sending; the
invariant carries it there: of a program that sends parcels of the handshake, every write the process is past is committed
(`WrittenSoFar`), since a `prepare_sql_statement` that fails, a table that cannot be made and a commit that is rolled
back all end the program or go back before the write. `DefaultsWhole` needs `MakerAlone`: the process between CREATE (126) and
INSERT (153), if nobody has disturbed it, has nobody beside it that holds a lock, runs or has left a SELECT
unfinalized, so its INSERT meets no lock; and there is no row in the way of the defaults, as no key can be set
before the table is there (`TablesThere`). A step is reduced to where it leaves its process (`Placed`) and what it adds
to the file (`StepEffect`).

`Ap2pListenerProofs` proves, for any parcels, any length of queue and any number of descriptors, `LinkInvHolds` (`Spec => []LinkInv`) and
`CallsImplementNet` (`Spec => ImplementsNet`). The refinement mapping says that a process anywhere in `send_parcel` is about to send, that
a listener anywhere before the end of `recv_parcel` is at the head of its loop, and that the network is the connections on
which all was sent and nothing read. Then `connect` that succeeds is a stutter, `send` is the abstract send, and the read of the
parcel is the abstract receipt. What makes it work: a connection has one process that writes on it
(`CommandsWrite`, `ListenersWrite`), so nobody sends twice; one is open only to a listener that is there
(`OpenToListeners`), so that a `send` that works reaches somebody; and a listener's answer is new (`AnsweredOnce`), because the
request was not read before. The theorem's hypothesis is `{"loss", "crash"} \subseteq Faults`: here a full queue loses a parcel, and a
listener without descriptors dies, whatever the environment does, and `ParcelNet` calls these loss and crash.

`ParcelCodecProofs` proves that the handlers read what was packed: `ConnReqIsRead`, `ConnAckIsRead` (and CONN_REJ),
`ConnAccIsRead`, `MsgSendIsRead`, `MsgRcvIsRead`, for all ids, times and numbers in 0 .. 2^63 - 1, lengths and ports in
0 .. 2^31 - 1, names and addresses that fit their fields. `MsgRcvIsRead` holds although the parcel is sent five bytes longer
than its buffer (990). `LongNameHasNoEnd` is the converse for names: in a CONN_REQ and in a CONN_ACC one of 64 bytes or more
arrives without its 0 (749, 854). A number is a sequence of its bytes by division, `Right` and `Left` being the shifts;
the proofs peel one byte at a time (`TakeIn`, `ByteMod`), and the layouts are
functions on offsets, so that no field reaches into another is arithmetic on intervals.

Assumptions on the constants: `NodeAssumption`, `RowAssumption`, `MaxRequestsAssumption`, `MsgAssumption` and
`NullAssumption` (NULL is neither an end nor a message) and
`ListenerAssumption` (users send no CONN_ACK, and a CONN_REQ carries one id, so that each has an answer of its own), all evaluated by TLC in runs of `MCConn`, `MCMsg` or `MCListener`. The further hypotheses named above are in the theorems' statements.

Only model-checked: the liveness properties (`RequestsAnswered`, `DecisionsArrive`, `SentIsReceived`, `EveryoneEnds`,
`ListenerComesBack`), since liveness under fairness is out of this prover's reach. Every invariant, action property and refinement
of a passing run has a theorem, some under the hypotheses named above, each stated in the theorem.

## 5. Not modelled

Log texts, argument parsing, help, the copying and display of listings (they change nothing; `RowsReadable` is what
they rely on), address discovery (it asks the operating system), the build, SQLite's inside (the vendored
`sqlite3.c` and `sqlite3.h`, 236,411 of the repository's lines of C, are third-party code taken by their documented
behaviour), Windows code (where `long` has 32 bits and `pack_long` shifts by more), `msg bulk` (a `todo!`).
Behaviour C leaves undefined is named in the hazards and not followed: what `strlen` finds in a name without end, what a listing
writes past its caller's five entries, what a handler does with a buffer that `recv` did not fill. Parcels no
ap2pmsg writes are not sent. With these left out, the map covers the code of `libap2p.c` from 9 to 1049 but for loose lines, and
`utilap2p.h` from 46 to 174.

## 6. Plan

1. That the tables a finished handshake leaves are settled, if every accepted row has been told: joins `SoloInv` to
   `TablesSettled`, the assumption of `Ap2pMsgProofs`.
2. A refinement of `Ap2p` to `ConnAgreement` and `MsgDelivery` together.
