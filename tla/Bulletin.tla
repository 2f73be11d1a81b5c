------------------------------- MODULE Bulletin -------------------------------
(***************************************************************************)
(* The bulletin board of HW1: several servers (server.c) on one board      *)
(* file, their clients (client.c), the kernel's record locks and the       *)
(* connections between them.  Every fcntl, read and write of the board     *)
(* file is a step of its own, since another server may run in between;     *)
(* what a server does to its own memory in between is part of these steps. *)
(* A connection delivers whole messages, in order.                         *)
(***************************************************************************)
EXTENDS Integers, Sequences, FiniteSets, FiniteSetsExt

CONSTANTS Server, Client,
          Home,          \* the server a client connects to
          Text,          \* what a client posts
          RECORD_NUM, MAX_CLIENTS,
          Up,            \* the servers that are past their start-up
          None           \* no process, no client, no post

ASSUME BulletinAssumption ==
    /\ Home \in [Client -> Server]
    /\ RECORD_NUM \in Nat \ {0}
    /\ MAX_CLIENTS \in Nat
    /\ Up \subseteq Server
    /\ DOMAIN Text = Client /\ None \notin Range(Text)
    /\ None \notin Server \cup Client

Record == 0..(RECORD_NUM - 1)
Slot   == 1..MAX_CLIENTS
Blank  == [r \in Record |-> None]   \* the board without any post

VARIABLES board,       \* the file: the text of each post, or None
          owner,       \* the kernel's lock table: who has the write lock
          backlog,     \* connections a server has not accepted yet
          fds,         \* the client in each slot of a server's poll set
          revents,     \* slots that poll() reported and main() has not handled
          locked, last, bulletinbuf,   \* the server's global variables
          at, conn, index, tries,      \* where a server is, and its locals
          toServer, toClient,          \* messages under way
          cat, pos                     \* where a client is, the record it edits

file   == <<board, owner>>
local  == <<at, conn, index, tries>>
polled == <<backlog, fds, revents>>
memory == <<locked, last, bulletinbuf>>
client == <<cat, pos>>
vars   == <<file, local, polled, memory, toServer, toClient, client>>

Init == /\ board = Blank
        /\ owner = [r \in Record |-> None]
        /\ backlog = [s \in Server |-> <<>>]
        /\ fds = [s \in Server |-> [k \in Slot |-> None]]
        /\ revents = [s \in Server |-> {}]
        /\ locked = [s \in Server |-> {}]
        /\ last = [s \in Server |-> RECORD_NUM - 1]
        /\ bulletinbuf = [s \in Server |-> Blank]
        /\ at = [s \in Server |-> IF s \in Up THEN "poll" ELSE "read"]
        /\ conn = [s \in Server |-> None]
        /\ index = [s \in Server |-> 0]
        /\ tries = [s \in Server |-> 0]
        /\ toServer = [c \in Client |-> <<>>]
        /\ toClient = [c \in Client |-> <<>>]
        /\ cat = [c \in Client |-> "new"]
        /\ pos = [c \in Client |-> 0]

-------------------------------------------------------------------------------
(* lock_reg: fcntl(F_SETLK) on one record *)

\* write_lock succeeds unless another process has the lock.
CanLock(s, r) == owner[r] \in {None, s}
write_lock(s, r) == owner' = [owner EXCEPT ![r] = s]
\* unlock gives up the caller's lock only.
unlock(s, r) == owner' = [owner EXCEPT ![r] = IF @ = s THEN None ELSE @]

Send(c, m) == toClient' = [toClient EXCEPT ![c] = Append(@, m)]

\* The end of a request: its locals go out of scope (bulletinbuf is global, but
\* always read anew before it is used), then on to the next slot of poll().
NextRequest(s, rest) ==
    /\ at' = [at EXCEPT ![s] = IF rest = {} THEN "poll" ELSE "serve"]
    /\ conn' = [conn EXCEPT ![s] = None]
    /\ index' = [index EXCEPT ![s] = 0]
    /\ tries' = [tries EXCEPT ![s] = 0]
    /\ bulletinbuf' = [bulletinbuf EXCEPT ![s] = Blank]

Goto(s, place) == at' = [at EXCEPT ![s] = place]

-------------------------------------------------------------------------------
(* main() of server.c *)

\* Start-up reads the whole board without any lock ...
StartRead(s) == /\ at[s] = "read"
                /\ bulletinbuf' = [bulletinbuf EXCEPT ![s] = board]
                /\ Goto(s, "write")
                /\ UNCHANGED <<file, conn, index, tries, polled, locked, last, toServer, toClient, client>>

\* ... and writes it back.
StartWrite(s) == /\ at[s] = "write"
                 /\ board' = bulletinbuf[s]
                 /\ NextRequest(s, revents[s])
                 /\ UNCHANGED <<owner, polled, locked, last, toServer, toClient, client>>

\* The first free slot takes the new connection; without one nobody serves it.
FreeSlots(s) == {k \in Slot : fds[s][k] = None}
Accepted(s) == IF FreeSlots(s) = {} THEN fds[s]
               ELSE [fds[s] EXCEPT ![Min(FreeSlots(s))] = Head(backlog[s])]

\* poll() blocks until there is something to do; then the accept, if any.
Poll(s) ==
    LET ready == {k \in Slot : fds[s][k] # None /\ toServer[fds[s][k]] # <<>>} IN
    /\ at[s] = "poll"
    /\ ready # {} \/ backlog[s] # <<>>
    /\ revents' = [revents EXCEPT ![s] = ready]
    /\ IF backlog[s] = <<>>
       THEN UNCHANGED <<fds, backlog>>
       ELSE /\ fds' = [fds EXCEPT ![s] = Accepted(s)]
            /\ backlog' = [backlog EXCEPT ![s] = Tail(@)]
    /\ Goto(s, IF ready = {} THEN "poll" ELSE "serve")
    /\ UNCHANGED <<file, conn, index, tries, memory, toServer, toClient, client>>

\* The next slot of this round and the message that its client sent.
Current(s) == Min(revents[s])
Request(s) == Head(toServer[fds[s][Current(s)]])

SetConn(s) == conn' = [conn EXCEPT ![s] = fds[s][Current(s)]]

\* read() of a request of the given type from the next slot.
Receive(s, type) ==
    /\ at[s] = "serve"
    /\ Request(s).type = type
    /\ toServer' = [toServer EXCEPT ![fds[s][Current(s)]] = Tail(@)]
    /\ revents' = [revents EXCEPT ![s] = @ \ {Current(s)}]

\* Mutant: the search starts at the record granted last.
PostFromLast(s) == /\ Receive(s, "post") /\ SetConn(s)
                   /\ index' = [index EXCEPT ![s] = last[s]]
                   /\ tries' = [tries EXCEPT ![s] = 0]
                   /\ Goto(s, "find")
                   /\ UNCHANGED <<file, backlog, fds, memory, toClient, client>>

\* !post: find_available() starts behind the record granted last.
Post(s) == /\ Receive(s, "post") /\ SetConn(s)
           /\ index' = [index EXCEPT ![s] = (last[s] + 1) % RECORD_NUM]
           /\ tries' = [tries EXCEPT ![s] = 0]
           /\ Goto(s, "find")
           /\ UNCHANGED <<file, backlog, fds, memory, toClient, client>>

Advance(s) == /\ index' = [index EXCEPT ![s] = (@ + 1) % RECORD_NUM]
              /\ tries' = [tries EXCEPT ![s] = @ + 1]

\* Mutant: the server's own table is not consulted; fcntl never refuses a lock
\* to the process that has it.
ProbeOwnLocks(s) ==
    /\ at[s] = "find" /\ tries[s] < RECORD_NUM
    /\ IF CanLock(s, index[s])
       THEN write_lock(s, index[s]) /\ Goto(s, "found") /\ UNCHANGED <<index, tries>>
       ELSE Advance(s) /\ UNCHANGED <<owner, at>>
    /\ UNCHANGED <<board, conn, polled, memory, toServer, toClient, client>>

\* Mutant: F_SETLKW for F_SETLK, the search waits for the other server's lock.
ProbeWaits(s) ==
    /\ at[s] = "find" /\ tries[s] < RECORD_NUM
    /\ index[s] \in locked[s] \/ CanLock(s, index[s])
    /\ IF index[s] \notin locked[s]
       THEN write_lock(s, index[s]) /\ Goto(s, "found") /\ UNCHANGED <<index, tries>>
       ELSE Advance(s) /\ UNCHANGED <<owner, at>>
    /\ UNCHANGED <<board, conn, polled, memory, toServer, toClient, client>>

\* One round of find_available(): a record this server has granted, or that
\* another process has locked, is passed over.
Probe(s) ==
    /\ at[s] = "find" /\ tries[s] < RECORD_NUM
    /\ IF index[s] \notin locked[s] /\ CanLock(s, index[s])
       THEN write_lock(s, index[s]) /\ Goto(s, "found") /\ UNCHANGED <<index, tries>>
       ELSE Advance(s) /\ UNCHANGED <<owner, at>>
    /\ UNCHANGED <<board, conn, polled, memory, toServer, toClient, client>>

\* find_available() unlocks what it found and returns it.
Found(s) == /\ at[s] = "found"
            /\ unlock(s, index[s])
            /\ Goto(s, "grant")
            /\ UNCHANGED <<board, conn, index, tries, polled, memory, toServer, toClient, client>>

\* The record is locked again, without a look at the result, and granted.
Grant(s) == /\ at[s] = "grant"
            /\ IF CanLock(s, index[s]) THEN write_lock(s, index[s]) ELSE UNCHANGED owner
            /\ locked' = [locked EXCEPT ![s] = @ \cup {index[s]}]
            /\ last' = [last EXCEPT ![s] = index[s]]
            /\ Send(conn[s], [type |-> "available", pos |-> index[s]])
            /\ NextRequest(s, revents[s])
            /\ UNCHANGED <<board, polled, toServer, client>>

\* find_available() returned -1.
Refuse(s) == /\ at[s] = "find" /\ tries[s] = RECORD_NUM
             /\ Send(conn[s], [type |-> "full"])
             /\ NextRequest(s, revents[s])
             /\ UNCHANGED <<file, polled, locked, last, toServer, client>>

\* Mutant: the slot stays taken.
CloseKeepsSlot(s) ==
    /\ Receive(s, "exit")
    /\ NextRequest(s, revents[s] \ {Current(s)})
    /\ UNCHANGED <<file, backlog, fds, locked, last, toClient, client>>

\* !exit: close the connection and free the slot.
CloseClient(s) ==
    /\ Receive(s, "exit")
    /\ fds' = [fds EXCEPT ![s][Current(s)] = None]
    /\ NextRequest(s, revents[s] \ {Current(s)})
    /\ UNCHANGED <<file, backlog, locked, last, toClient, client>>

\* !pull: read the whole board, then look at one record after the other.
Pull(s) == /\ Receive(s, "pull") /\ SetConn(s)
           /\ bulletinbuf' = [bulletinbuf EXCEPT ![s] = board]
           /\ index' = [index EXCEPT ![s] = 0]
           /\ Goto(s, "pull")
           /\ UNCHANGED <<file, tries, backlog, fds, locked, last, toClient, client>>

\* Is record index locked?  If not, the test itself has locked it.
PullTest(s) ==
    /\ at[s] = "pull" /\ index[s] < RECORD_NUM
    /\ IF index[s] \notin locked[s] /\ CanLock(s, index[s])
       THEN write_lock(s, index[s]) /\ Goto(s, "pulled") /\ UNCHANGED index
       ELSE index' = [index EXCEPT ![s] = @ + 1] /\ UNCHANGED <<owner, at>>
    /\ UNCHANGED <<board, conn, tries, polled, memory, toServer, toClient, client>>

\* Mutant: the test's lock is not given back.
PullKeepsLock(s) ==
    /\ at[s] = "pulled"
    /\ IF bulletinbuf[s][index[s]] # None
       THEN Send(conn[s], [type |-> "record", rd |-> bulletinbuf[s][index[s]]])
       ELSE UNCHANGED toClient
    /\ index' = [index EXCEPT ![s] = @ + 1]
    /\ Goto(s, "pull")
    /\ UNCHANGED <<file, conn, tries, polled, memory, toServer, client>>

\* Mutant: the loop only advances over records without a post.
PullRepeats(s) ==
    /\ at[s] = "pulled"
    /\ unlock(s, index[s])
    /\ IF bulletinbuf[s][index[s]] # None
       THEN Send(conn[s], [type |-> "record", rd |-> bulletinbuf[s][index[s]]]) /\ UNCHANGED index
       ELSE index' = [index EXCEPT ![s] = @ + 1] /\ UNCHANGED toClient
    /\ Goto(s, "pull")
    /\ UNCHANGED <<board, conn, tries, polled, memory, toServer, client>>

\* Unlock it and send what was read, if there is a post.
PullSend(s) ==
    /\ at[s] = "pulled"
    /\ unlock(s, index[s])
    /\ IF bulletinbuf[s][index[s]] # None
       THEN Send(conn[s], [type |-> "record", rd |-> bulletinbuf[s][index[s]]])
       ELSE UNCHANGED toClient
    /\ index' = [index EXCEPT ![s] = @ + 1]
    /\ Goto(s, "pull")
    /\ UNCHANGED <<board, conn, tries, polled, memory, toServer, client>>

\* All records have been looked at.
PullEnd(s) == /\ at[s] = "pull" /\ index[s] = RECORD_NUM
              /\ Send(conn[s], [type |-> "end"])
              /\ NextRequest(s, revents[s])
              /\ UNCHANGED <<file, polled, locked, last, toServer, client>>

\* Mutant: the post goes to the record granted last.
FinishAtLast(s) == /\ Receive(s, "finish") /\ SetConn(s)
                   /\ index' = [index EXCEPT ![s] = Request(s).pos]
                   /\ board' = [board EXCEPT ![last[s]] = Request(s).rd]
                   /\ Goto(s, "finish")
                   /\ UNCHANGED <<owner, tries, backlog, fds, memory, toClient, client>>

\* !finish: write the post to its record ...
Finish(s) == /\ Receive(s, "finish") /\ SetConn(s)
             /\ index' = [index EXCEPT ![s] = Request(s).pos]
             /\ board' = [board EXCEPT ![Request(s).pos] = Request(s).rd]
             /\ Goto(s, "finish")
             /\ UNCHANGED <<owner, tries, backlog, fds, memory, toClient, client>>

\* ... and unlock it.
FinishUnlock(s) ==
    /\ at[s] = "finish"
    /\ unlock(s, index[s])
    /\ locked' = [locked EXCEPT ![s] = @ \ {index[s]}]
    /\ NextRequest(s, revents[s])
    /\ UNCHANGED <<board, polled, last, toServer, toClient, client>>

find_available(s) == Probe(s) \/ Found(s)

server(s) == \/ StartRead(s) \/ StartWrite(s) \/ Poll(s)
             \/ Post(s) \/ find_available(s) \/ Grant(s) \/ Refuse(s)
             \/ Pull(s) \/ PullTest(s) \/ PullSend(s) \/ PullEnd(s)
             \/ Finish(s) \/ FinishUnlock(s) \/ CloseClient(s)

-------------------------------------------------------------------------------
(* client.c *)

Ask(c, m) == /\ toServer' = [toServer EXCEPT ![c] = Append(@, m)]
             /\ UNCHANGED <<file, local, fds, revents, memory, toClient>>

\* socket() and connect(): the connection waits to be accepted.
init_client(c) == backlog' = [backlog EXCEPT ![Home[c]] = Append(@, c)]

\* main() connects and asks for the board with its first print_board().
Connect(c) == /\ cat[c] = "new"
              /\ init_client(c)
              /\ cat' = [cat EXCEPT ![c] = "pulling"]
              /\ Ask(c, [type |-> "pull"])
              /\ UNCHANGED pos

\* The user's commands.
Command(c) == /\ cat[c] = "command"
              /\ \/ Ask(c, [type |-> "pull"]) /\ cat' = [cat EXCEPT ![c] = "pulling"]
                 \/ Ask(c, [type |-> "post"]) /\ cat' = [cat EXCEPT ![c] = "posting"]
                 \/ Ask(c, [type |-> "exit"]) /\ cat' = [cat EXCEPT ![c] = "gone"]
              /\ UNCHANGED <<backlog, pos>>

\* Mutant: print_board() stops at the first record.
ReadBoardOnce(c) == /\ cat[c] = "pulling" /\ toClient[c] # <<>>
                    /\ toClient' = [toClient EXCEPT ![c] = Tail(@)]
                    /\ cat' = [cat EXCEPT ![c] = "command"]
                    /\ UNCHANGED <<file, local, polled, memory, toServer, pos>>

\* print_board() reads until "!end".
ReadBoard(c) == /\ cat[c] = "pulling" /\ toClient[c] # <<>>
                /\ toClient' = [toClient EXCEPT ![c] = Tail(@)]
                /\ cat' = [cat EXCEPT ![c] = IF Head(toClient[c]).type = "end" THEN "command" ELSE @]
                /\ UNCHANGED <<file, local, polled, memory, toServer, pos>>

\* The answer to "!post"; whatever is not "!full" is taken for a grant.
ReadReply(c) ==
    /\ cat[c] = "posting" /\ toClient[c] # <<>>
    /\ toClient' = [toClient EXCEPT ![c] = Tail(@)]
    /\ IF Head(toClient[c]).type = "full"
       THEN cat' = [cat EXCEPT ![c] = "command"] /\ UNCHANGED pos
       ELSE /\ cat' = [cat EXCEPT ![c] = "typing"]
            /\ pos' = [pos EXCEPT ![c] = Head(toClient[c]).pos]
    /\ UNCHANGED <<file, local, polled, memory, toServer>>

\* The user has typed the post; msg goes out of scope.
Submit(c) == /\ cat[c] = "typing"
             /\ Ask(c, [type |-> "finish", pos |-> pos[c], rd |-> Text[c]])
             /\ cat' = [cat EXCEPT ![c] = "command"]
             /\ pos' = [pos EXCEPT ![c] = 0]
             /\ UNCHANGED backlog

\* Client c has been accepted when there was no slot left: nobody serves it.
Dropped(c) == /\ cat[c] \notin {"new", "gone"}
              /\ c \notin Range(backlog[Home[c]]) \cup Range(fds[Home[c]])

\* All clients have left or wait for good; the servers wait in poll().
Idle == /\ \A c \in Client : (cat[c] = "gone" /\ toServer[c] = <<>>) \/ Dropped(c)
        /\ \A s \in Server : at[s] = "poll"
        /\ UNCHANGED vars

Next == \/ \E s \in Server : server(s)
        \/ \E c \in Client : Connect(c) \/ Command(c) \/ ReadBoard(c) \/ ReadReply(c) \/ Submit(c)
        \/ Idle

Spec == Init /\ [][Next]_vars

\* Servers run, and a client reads what it waits for; no user has to do
\* anything.
FairSpec == /\ Spec
            /\ \A s \in Server : WF_vars(server(s))
            /\ \A c \in Client : WF_vars(ReadBoard(c) \/ ReadReply(c))

-------------------------------------------------------------------------------
(* Properties *)

Requests == [type : {"pull", "post", "exit"}] \cup [type : {"finish"}, pos : Record, rd : Range(Text)]
Answers == [type : {"full", "end"}] \cup [type : {"available"}, pos : Record]
                                    \cup [type : {"record"}, rd : Range(Text)]

\* Every variable keeps its type, and no connection holds more messages than
\* one board, one post and one request.
TypeOK == /\ board \in [Record -> Range(Text) \cup {None}]
          /\ owner \in [Record -> Server \cup {None}]
          /\ backlog \in [Server -> Seq(Client)]
          /\ fds \in [Server -> [Slot -> Client \cup {None}]]
          /\ revents \in [Server -> SUBSET Slot]
          /\ locked \in [Server -> SUBSET Record]
          /\ last \in [Server -> Record]
          /\ bulletinbuf \in [Server -> [Record -> Range(Text) \cup {None}]]
          /\ at \in [Server -> {"read", "write", "poll", "serve", "find", "found", "grant",
                                "pull", "pulled", "finish"}]
          /\ conn \in [Server -> Client \cup {None}]
          /\ index \in [Server -> 0..RECORD_NUM]
          /\ tries \in [Server -> 0..RECORD_NUM]
          /\ cat \in [Client -> {"new", "pulling", "command", "posting", "typing", "gone"}]
          /\ pos \in [Client -> Record]
          /\ toServer \in [Client -> Seq(Requests)]
          /\ toClient \in [Client -> Seq(Answers)]
          /\ \A c \in Client : Len(toServer[c]) <= 2 /\ Len(toClient[c]) <= RECORD_NUM + 1

\* Client c has been granted record r and its post is not on the board yet.
InMessage(q, type, r) == \E k \in DOMAIN q : q[k].type = type /\ q[k].pos = r
Holds(c, r) == \/ InMessage(toClient[c], "available", r)
               \/ cat[c] = "typing" /\ pos[c] = r
               \/ InMessage(toServer[c], "finish", r)
               \/ at[Home[c]] = "finish" /\ conn[Home[c]] = c /\ index[Home[c]] = r

\* A server's table locked says exactly which records its clients hold, and no
\* two of its clients hold the same one, while grants and posts are under way
\* and another server works on the same board.
GrantTable == \A s \in Server : \A r \in Record :
    LET holders == {c \in Client : Home[c] = s /\ Holds(c, r)} IN
    Cardinality(holders) = IF r \in locked[s] THEN 1 ELSE 0

\* No server keeps a kernel lock on a record that it neither granted nor tests
\* at this moment: no record gets locked for ever.
NoLeakedLock == \A r \in Record : \A s \in Server :
    owner[r] = s => r \in locked[s] \/ (at[s] \in {"found", "pulled"} /\ index[s] = r)

\* Requests and answers never get out of step: the client that waits for the
\* answer to "!post" finds just that, and one that is not waiting has nothing
\* to read.  (ReadReply takes any message but "!full" for a grant.)
InStep == \A c \in Client :
    /\ cat[c] = "posting" => /\ Len(toClient[c]) <= 1
                             /\ \A k \in DOMAIN toClient[c] : toClient[c][k].type \in {"available", "full"}
    /\ cat[c] = "pulling" => \A k \in DOMAIN toClient[c] : toClient[c][k].type \in {"record", "end"}
    /\ cat[c] \notin {"posting", "pulling"} => toClient[c] = <<>>

\* With one server: the record granted is the first one behind the last grant
\* that nobody edits, a client is refused only when every record is being
\* edited, and a record stays locked in the kernel while it is being edited.
Distance(a, b) == (b - a - 1) % RECORD_NUM
FindsNext == \A s \in Server :
    /\ at[s] = "grant" =>
          /\ index[s] \notin locked[s]
          /\ \A r \in Record \ locked[s] : Distance(last[s], index[s]) <= Distance(last[s], r)
    /\ at[s] = "find" /\ tries[s] = RECORD_NUM => locked[s] = Record
    /\ \A r \in locked[s] : owner[r] = s

\* A slot is taken by one client that is still connected or has left an "!exit"
\* to be read, and no client has two: as clients come and go no slot is lost,
\* and nobody is turned away who could be served.
SlotsExact == \A s \in Server : \A k \in Slot :
    LET c == fds[s][k] IN
    c # None => /\ \A l \in Slot \ {k} : fds[s][l] # c
                /\ Home[c] = s /\ c \notin Range(backlog[s])
                /\ cat[c] = "gone" => toServer[c] # <<>>

\* No two clients, of whatever servers, are granted the same record.
NoDoubleGrant == \A c, d \in Client : \A r \in Record : Holds(c, r) /\ Holds(d, r) => c = d

\* A server that starts leaves the board as it is.
StartKeepsBoard == [][\A s \in Server : StartWrite(s) => board' = board]_vars

\* Every request is answered, whatever the other clients and the other servers
\* do, but for a client that came when all slots were taken.
Answered == \A c \in Client :
    cat[c] \in {"pulling", "posting"} ~> cat[c] \in {"command", "typing"} \/ Dropped(c)

\* The client that has been granted record r, until its post is written.
Lent(s) == IF at[s] = "finish" THEN locked[s] \ {index[s]} ELSE locked[s]
Holder(r) == IF \E s \in Server : r \in Lent(s) THEN CHOOSE c \in Client : Holds(c, r) ELSE None

\* With one server: the server, its clients and their messages together are the
\* board that users expect, however requests and answers are interleaved.
B == INSTANCE Board WITH holder <- [r \in Record |-> Holder(r)],
                         last <- last[CHOOSE s \in Server : TRUE]
BoardPromise == B!Spec
===============================================================================
