---------------------------- MODULE BulletinProofs ----------------------------
(***************************************************************************)
(* Proofs about Bulletin for any number of servers, clients, slots and     *)
(* records: the types, the slots, requests and answers in step, the table  *)
(* of grants, and the locks that the servers hold.                         *)
(***************************************************************************)
EXTENDS Bulletin, FiniteSetTheorems, SequenceTheorems, WellFoundedInduction, TLAPS

Serving == {"find", "found", "grant", "pull", "pulled", "finish"}

\* Where server s is tells what its locals are.
Place(s) == /\ conn[s] # None <=> at[s] \in Serving
            /\ conn[s] # None => Home[conn[s]] = s
            /\ at[s] \in {"read", "write", "poll"} => revents[s] = {}
            /\ at[s] = "serve" => revents[s] # {}
            /\ at[s] # "pull" => index[s] \in Record
            /\ at[s] \in {"found", "grant"} => index[s] \notin locked[s]

\* A connection is in the backlog or in a slot, and only once.  Nobody has
\* looked at one in the backlog yet; every slot that poll() reported has a
\* request.
Seats(s) == /\ \A k \in Slot : fds[s][k] # None => cat[fds[s][k]] # "new"
            /\ \A k \in DOMAIN backlog[s] :
                  LET c == backlog[s][k] IN
                  /\ Home[c] = s /\ cat[c] = "pulling" /\ toClient[c] = <<>> /\ conn[s] # c
                  /\ \A l \in DOMAIN backlog[s] : backlog[s][l] = c => l = k
            /\ \A k \in revents[s] : fds[s][k] # None /\ toServer[fds[s][k]] # <<>>

Served(c) == conn[Home[c]] = c

\* The request t of client c has not been read: it may be behind a post, and the
\* server may be writing that post.
Unread(c, t) == LET q == toServer[c] IN
    /\ toClient[c] = <<>>
    /\ Len(q) \in {1, 2} /\ q[Len(q)].type = t /\ (Len(q) = 2 => q[1].type = "finish")
    /\ Served(c) => at[Home[c]] = "finish" /\ Len(q) = 1

\* Nothing is under way between client c and its server.
Silent(c) == toServer[c] = <<>> /\ toClient[c] = <<>> /\ ~Served(c)

Records(q, n) == \A k \in 1..n : q[k].type = "record"

\* What is under way between client c, from where it is, and its server.
Commands(c) == /\ toClient[c] = <<>> /\ Len(toServer[c]) <= 1
               /\ toServer[c] # <<>> => toServer[c][1].type = "finish"
               /\ Served(c) => at[Home[c]] = "finish" /\ toServer[c] = <<>>

Posting(c) == \/ Unread(c, "post")
              \/ /\ toServer[c] = <<>> /\ toClient[c] = <<>>
                 /\ Served(c) /\ at[Home[c]] \in {"find", "found", "grant"}
              \/ /\ toServer[c] = <<>> /\ ~Served(c)
                 /\ Len(toClient[c]) = 1 /\ toClient[c][1].type \in {"available", "full"}

Pulling(c) == LET a == toClient[c] IN
              \/ Unread(c, "pull")
              \/ /\ toServer[c] = <<>>
                 /\ Served(c) /\ at[Home[c]] \in {"pull", "pulled"}
                 /\ Len(a) <= index[Home[c]] /\ Records(a, Len(a))
              \/ /\ toServer[c] = <<>> /\ ~Served(c)
                 /\ Len(a) \in 1..(RECORD_NUM + 1)
                 /\ a[Len(a)].type = "end" /\ Records(a, Len(a) - 1)

Dialogue(c) == /\ cat[c] \in {"new", "typing"} => Silent(c)
               /\ cat[c] = "command" => Commands(c)
               /\ cat[c] = "gone"    => Unread(c, "exit") \/ Silent(c)
               /\ cat[c] = "posting" => Posting(c)
               /\ cat[c] = "pulling" => Pulling(c)

\* GrantTable without counting.
Grants == /\ \A s \in Server : \A r \in Record :
                r \in locked[s] <=> \E c \in Client : Home[c] = s /\ Holds(c, r)
          /\ \A c, d \in Client : \A r \in Record :
                Home[c] = Home[d] /\ Holds(c, r) /\ Holds(d, r) => c = d

IInv == /\ TypeOK
        /\ \A s \in Server : Place(s) /\ Seats(s)
        /\ SlotsExact
        /\ \A c \in Client : Dialogue(c)
        /\ Grants

-------------------------------------------------------------------------------
(* Numbers and sequences *)

Less == {p \in Nat \X Nat : p[1] < p[2]}

LEMMA LessWellFounded == IsWellFoundedOn(Less, Nat)
BY NatLessThanWellFounded DEF OpToRel, Less

\* A set of numbers that is not empty has a least element.
LEMMA MinIn ==
    ASSUME NEW S \in SUBSET Nat, S # {}
    PROVE  Min(S) \in S /\ \A n \in S : Min(S) <= n
<1>1. PICK m \in S : \A n \in S : ~(<<n, m>> \in Less)
  BY LessWellFounded, WFMin
<1>2. ASSUME NEW n \in S PROVE m <= n
  <2>1. n \in Nat /\ m \in Nat
    OBVIOUS
  <2>2. n < m => <<n, m>> \in Less
    BY <2>1 DEF Less
  <2>3. QED
    BY <1>1, <2>1, <2>2
<1>3. QED
  BY <1>2 DEF Min

LEMMA ModRange == ASSUME NEW n \in Int PROVE n % RECORD_NUM \in Record
BY BulletinAssumption DEF Record

LEMMA Empty == ASSUME NEW S, NEW q \in Seq(S) PROVE Len(q) \in Nat /\ (q = <<>> <=> Len(q) = 0)
BY EmptySeq, LenProperties

LEMMA AtMostOne == ASSUME NEW n \in Nat, n <= 1, n # 0 PROVE n = 1
OBVIOUS

LEMMA NotEmpty == ASSUME NEW S, NEW q \in Seq(S), Len(q) = 1 PROVE q # <<>>
OBVIOUS

LEMMA TailOfOne == ASSUME NEW S, NEW q \in Seq(S), Len(q) = 1 PROVE Tail(q) = <<>>
<1>1. q # <<>>
  OBVIOUS
<1>2. Tail(q) \in Seq(S) /\ Len(Tail(q)) = 0
  BY <1>1, HeadTailProperties
<1>3. QED
  BY <1>2, EmptySeq

\* An answer that grants nothing changes nothing about who holds what.
LEMMA AppendOther ==
    ASSUME NEW q \in Seq(Answers), NEW m \in Answers, m.type # "available", NEW r
    PROVE  InMessage(Append(q, m), "available", r) <=> InMessage(q, "available", r)
<1>1. /\ DOMAIN q = 1..Len(q) /\ Len(q) \in Nat
      /\ DOMAIN Append(q, m) = 1..(Len(q) + 1)
      /\ \A k \in 1..Len(q) : Append(q, m)[k] = q[k]
      /\ Append(q, m)[Len(q) + 1] = m
  BY AppendProperties, LenProperties
<1>2. QED
  BY <1>1 DEF InMessage

-------------------------------------------------------------------------------
(* Steps of a server within a request *)

\* Server s works on the request of client conn[s], or starts.
Work(s) == /\ UNCHANGED <<backlog, fds, revents, toServer, cat, pos>>
           /\ \A u \in Server \ {s} : /\ at'[u] = at[u] /\ conn'[u] = conn[u]
                                      /\ index'[u] = index[u] /\ locked'[u] = locked[u]
           /\ conn'[s] \in {conn[s], None}
           /\ \A d \in Client : d # conn[s] => toClient'[d] = toClient[d]

LEMMA WorkSeats ==
    ASSUME IInv, NEW s \in Server, Work(s)
    PROVE  SlotsExact' /\ \A u \in Server : Seats(u)'
<1>1. SlotsExact'
  BY DEF IInv, Work, SlotsExact
<1>2. ASSUME NEW u \in Server PROVE Seats(u)'
  <2>1. Seats(u) /\ backlog[u] \in Seq(Client) /\ None \notin Client
    BY BulletinAssumption DEF IInv, TypeOK
  <2>2. ASSUME NEW k \in DOMAIN backlog[u]
        PROVE  toClient'[backlog[u][k]] = toClient[backlog[u][k]] /\ conn'[u] # backlog[u][k]
    <3>1. /\ backlog[u][k] \in Client /\ Home[backlog[u][k]] = u
          /\ conn[u] # backlog[u][k]
      BY <2>1, ElementOfSeq DEF Seats
    <3>2. conn[s] # backlog[u][k]
      BY <3>1, BulletinAssumption DEF IInv, Place, TypeOK
    <3>3. QED
      BY <3>1, <3>2, <2>1 DEF Work
  <2>3. QED
    BY <2>1, <2>2 DEF Work, Seats
<1>3. QED
  BY <1>1, <1>2

LEMMA WorkOthers ==
    ASSUME IInv, NEW s \in Server, Work(s), NEW d \in Client, d # conn[s]
    PROVE  Dialogue(d)' /\ \A r : Holds(d, r)' <=> Holds(d, r)
<1>1. /\ cat'[d] = cat[d] /\ pos'[d] = pos[d]
      /\ toServer'[d] = toServer[d] /\ toClient'[d] = toClient[d]
  BY DEF Work
<1>2. Served(d)' <=> Served(d)
  BY BulletinAssumption DEF Work, Served
<1>3. Served(d) => at'[Home[d]] = at[Home[d]] /\ index'[Home[d]] = index[Home[d]]
  BY BulletinAssumption DEF Work, Served
<1>4. Dialogue(d)
  BY DEF IInv
<1>5. Dialogue(d)'
  BY <1>1, <1>2, <1>3, <1>4 DEF Dialogue, Silent, Commands, Posting, Pulling, Unread, Records
<1>6. ASSUME NEW r PROVE Holds(d, r)' <=> Holds(d, r)
  BY <1>1, <1>2, <1>3 DEF Holds, Served
<1>7. QED
  BY <1>5, <1>6

\* Everyone holds what they held before.
Holding == \A c \in Client : \A r \in Record : Holds(c, r)' <=> Holds(c, r)

\* The table stays right if neither it nor what anybody holds changes.
LEMMA SameGrants ==
    ASSUME Grants, locked' = locked, \A c \in Client : \A r \in Record : Holds(c, r)' <=> Holds(c, r)
    PROVE  Grants'
BY DEF Grants

\* What is left to show of such a step.
LEMMA WorkStep ==
    ASSUME IInv, NEW s \in Server, Work(s), TypeOK', Place(s)', Grants',
           \A c \in Client : c = conn[s] => Dialogue(c)'
    PROVE  IInv'
<1>1. ASSUME NEW u \in Server PROVE Place(u)'
  BY DEF Work, IInv, Place
<1>2. ASSUME NEW d \in Client PROVE Dialogue(d)'
  <2>1. CASE d = conn[s]
    BY <2>1
  <2>2. CASE d # conn[s]
    BY <2>2, WorkOthers
  <2>3. QED
    BY <2>1, <2>2
<1>3. QED
  BY <1>1, <1>2, WorkSeats DEF IInv

\* The place of conn[s] in its dialogue, from the place of s.
LEMMA AtWork ==
    ASSUME IInv, NEW s \in Server, at[s] \in Serving
    PROVE  \E c \in Client :
           /\ c = conn[s] /\ Home[c] = s
           /\ at[s] \in {"find", "found", "grant"} =>
                 cat[c] = "posting" /\ toServer[c] = <<>> /\ toClient[c] = <<>>
           /\ at[s] \in {"pull", "pulled"} =>
                 /\ cat[c] = "pulling" /\ toServer[c] = <<>>
                 /\ Len(toClient[c]) <= index[s] /\ Records(toClient[c], Len(toClient[c]))
           /\ at[s] = "finish" =>
                 /\ toClient[c] = <<>> /\ cat[c] \in {"command", "posting", "pulling", "gone"}
                 /\ Len(toServer[c]) <= 1
                 /\ toServer[c] # <<>> => toServer[c][1].type # "finish"
<1>1. PICK c \in Client : c = conn[s] /\ Home[c] = s /\ Served(c)
  BY DEF IInv, TypeOK, Place, Served
<1>2. Dialogue(c) /\ cat[c] \in {"new", "pulling", "command", "posting", "typing", "gone"}
  BY <1>1 DEF IInv, TypeOK
<1>3. toServer[c] \in Seq(Requests)
  BY <1>1 DEF IInv, TypeOK
<1>4. QED
  BY <1>1, <1>2, <1>3 DEF Dialogue, Silent, Commands, Posting, Pulling, Unread, Serving

LEMMA StartReadStep == ASSUME IInv, NEW s \in Server, StartRead(s) PROVE IInv' /\ Holding
<1>1. conn[s] = None
  BY DEF IInv, Place, StartRead, Serving
<1>2. Work(s)
  BY DEF StartRead, Work, Goto, IInv, TypeOK, polled, client
<1>3. TypeOK'
  BY DEF StartRead, Goto, IInv, TypeOK, file, polled, client
<1>4. Place(s)'
  BY DEF StartRead, Goto, IInv, TypeOK, Place, Serving, polled
<1>5. Grants' /\ Holding
  <2>1. ASSUME NEW d \in Client, NEW r \in Record PROVE Holds(d, r)' <=> Holds(d, r)
    BY <1>1, <1>2, WorkOthers, BulletinAssumption
  <2>2. QED
    BY <2>1, SameGrants DEF Holding, StartRead, IInv
<1>6. QED
  BY <1>1, <1>2, <1>3, <1>4, <1>5, WorkStep, BulletinAssumption

LEMMA StartWriteStep == ASSUME IInv, NEW s \in Server, StartWrite(s) PROVE IInv' /\ Holding
<1>1. conn[s] = None
  BY DEF IInv, Place, StartWrite, Serving
<1>2. Work(s)
  BY DEF StartWrite, Work, NextRequest, IInv, TypeOK, polled, client
<1>3. TypeOK'
  BY BulletinAssumption DEF StartWrite, NextRequest, IInv, TypeOK, polled, client, Blank
<1>4. Place(s)'
  BY BulletinAssumption DEF StartWrite, NextRequest, IInv, TypeOK, Place, Serving, polled, Record
<1>5. Grants' /\ Holding
  <2>1. ASSUME NEW d \in Client, NEW r \in Record PROVE Holds(d, r)' <=> Holds(d, r)
    BY <1>1, <1>2, WorkOthers, BulletinAssumption
  <2>2. QED
    BY <2>1, SameGrants DEF Holding, StartWrite, IInv
<1>6. QED
  BY <1>1, <1>2, <1>3, <1>4, <1>5, WorkStep, BulletinAssumption

LEMMA ProbeStep == ASSUME IInv, NEW s \in Server, Probe(s) PROVE IInv' /\ Holding
<1>1. PICK c \in Client : /\ at[s] = "find" /\ c = conn[s] /\ Home[c] = s
                          /\ cat[c] = "posting" /\ toServer[c] = <<>> /\ toClient[c] = <<>>
  BY AtWork DEF Probe, Serving
<1>2. Work(s)
  BY DEF Probe, Work, Goto, Advance, IInv, TypeOK, polled, client, memory
<1>3. TypeOK'
  <2>1. (index[s] + 1) % RECORD_NUM \in 0..RECORD_NUM
    <3>1. index[s] + 1 \in Int
      BY DEF IInv, TypeOK
    <3>2. (index[s] + 1) % RECORD_NUM \in Record
      BY <3>1, ModRange
    <3>3. QED
      BY <3>2, BulletinAssumption DEF Record
  <2>2. tries[s] + 1 \in 0..RECORD_NUM
    BY BulletinAssumption DEF Probe, IInv, TypeOK
  <2>3. index' \in [Server -> 0..RECORD_NUM] /\ tries' \in [Server -> 0..RECORD_NUM]
    BY <2>1, <2>2 DEF Probe, Advance, IInv, TypeOK
  <2>4. QED
    BY <2>3 DEF Probe, Goto, write_lock, IInv, TypeOK, polled, client, memory
<1>4. Place(s)'
  BY <1>1, ModRange DEF Probe, Goto, Advance, IInv, TypeOK, Place, Serving, polled, memory
<1>5. Dialogue(c)'
  BY <1>1 DEF Probe, Goto, Dialogue, Posting, Served, IInv, TypeOK, polled, client
<1>6. Grants' /\ Holding
  <2>1. ASSUME NEW d \in Client, NEW r \in Record PROVE Holds(d, r)' <=> Holds(d, r)
    <3>1. CASE d = c
      BY <3>1, <1>1 DEF Probe, Goto, Holds, IInv, TypeOK, client
    <3>2. CASE d # c
      BY <1>1, <3>2, <1>2, WorkOthers
    <3>3. QED
      BY <3>1, <3>2
  <2>2. QED
    BY <2>1, SameGrants DEF Holding, Probe, IInv, memory
<1>7. QED
  BY <1>1, <1>2, <1>3, <1>4, <1>5, <1>6, WorkStep

LEMMA FoundStep == ASSUME IInv, NEW s \in Server, Found(s) PROVE IInv' /\ Holding
<1>1. PICK c \in Client : /\ at[s] = "found" /\ c = conn[s] /\ Home[c] = s
                          /\ cat[c] = "posting" /\ toServer[c] = <<>> /\ toClient[c] = <<>>
  BY AtWork DEF Found, Serving
<1>2. Work(s)
  BY DEF Found, Work, Goto, IInv, TypeOK, polled, client, memory
<1>3. TypeOK'
  BY DEF Found, Goto, unlock, IInv, TypeOK, polled, client, memory
<1>4. Place(s)'
  BY <1>1 DEF Found, Goto, IInv, TypeOK, Place, Serving, polled, memory
<1>5. Dialogue(c)'
  BY <1>1 DEF Found, Goto, Dialogue, Posting, Served, IInv, TypeOK, polled, client
<1>6. Grants' /\ Holding
  <2>1. ASSUME NEW d \in Client, NEW r \in Record PROVE Holds(d, r)' <=> Holds(d, r)
    <3>1. CASE d = c
      BY <3>1, <1>1 DEF Found, Goto, Holds, IInv, TypeOK, client
    <3>2. CASE d # c
      BY <1>1, <3>2, <1>2, WorkOthers
    <3>3. QED
      BY <3>1, <3>2
  <2>2. QED
    BY <2>1, SameGrants DEF Holding, Found, IInv, memory
<1>7. QED
  BY <1>1, <1>2, <1>3, <1>4, <1>5, <1>6, WorkStep

LEMMA RefuseStep == ASSUME IInv, NEW s \in Server, Refuse(s) PROVE IInv' /\ Holding
<1>1. PICK c \in Client : /\ at[s] = "find" /\ c = conn[s] /\ Home[c] = s
                          /\ cat[c] = "posting" /\ toServer[c] = <<>> /\ toClient[c] = <<>>
  BY AtWork DEF Refuse, Serving
<1>2. Work(s)
  BY <1>1 DEF Refuse, Work, Send, NextRequest, IInv, TypeOK, polled, client
<1>3. TypeOK'
  <2>1. toClient'[c] \in Seq(Answers) /\ Len(toClient'[c]) = 1
    BY <1>1 DEF Refuse, Send, IInv, TypeOK, Answers
  <2>2. toClient' \in [Client -> Seq(Answers)] /\ \A d \in Client : Len(toClient'[d]) <= RECORD_NUM + 1
    BY <2>1, <1>1, BulletinAssumption DEF Refuse, Send, IInv, TypeOK
  <2>3. QED
    BY <2>2, BulletinAssumption DEF Refuse, NextRequest, Blank, IInv, TypeOK, file, polled, client
<1>4. Place(s)'
  BY <1>1, BulletinAssumption DEF Refuse, NextRequest, IInv, TypeOK, Place, Serving, polled, Record
<1>5. Dialogue(c)'
  <2>1. Len(toClient'[c]) = 1 /\ toClient'[c][1].type = "full"
    BY <1>1 DEF Refuse, Send, IInv, TypeOK, Answers
  <2>2. ~Served(c)'
    BY <1>1, BulletinAssumption DEF Refuse, NextRequest, Served, IInv, TypeOK
  <2>3. QED
    BY <1>1, <2>1, <2>2 DEF Refuse, Dialogue, Posting, client
<1>6. Grants' /\ Holding
  <2>1. ASSUME NEW d \in Client, NEW r \in Record PROVE Holds(d, r)' <=> Holds(d, r)
    <3>1. CASE d = c
      <4>1. InMessage(toClient'[c], "available", r) <=> InMessage(toClient[c], "available", r)
        BY <1>1, AppendOther DEF Refuse, Send, IInv, TypeOK, Answers
      <4>2. QED
        BY <3>1, <4>1, <1>1 DEF Refuse, Goto, NextRequest, Holds, IInv, TypeOK, client
    <3>2. CASE d # c
      BY <1>1, <3>2, <1>2, WorkOthers
    <3>3. QED
      BY <3>1, <3>2
  <2>2. QED
    BY <2>1, SameGrants DEF Holding, Refuse, IInv
<1>7. QED
  BY <1>1, <1>2, <1>3, <1>4, <1>5, <1>6, WorkStep

LEMMA PullTestStep == ASSUME IInv, NEW s \in Server, PullTest(s) PROVE IInv' /\ Holding
<1>1. PICK c \in Client : /\ at[s] = "pull" /\ c = conn[s] /\ Home[c] = s
                          /\ cat[c] = "pulling" /\ toServer[c] = <<>>
                          /\ Len(toClient[c]) <= index[s] /\ Records(toClient[c], Len(toClient[c]))
  BY AtWork DEF PullTest, Serving
<1>a. index[s] \in Record /\ index[s] + 1 \in 0..RECORD_NUM
  BY BulletinAssumption DEF PullTest, IInv, TypeOK, Record
<1>2. Work(s)
  BY DEF PullTest, Work, Goto, IInv, TypeOK, polled, client, memory
<1>3. TypeOK'
  <2>1. index' \in [Server -> 0..RECORD_NUM]
    BY <1>a DEF PullTest, IInv, TypeOK
  <2>2. QED
    BY <2>1 DEF PullTest, Goto, write_lock, IInv, TypeOK, polled, client, memory
<1>4. Place(s)'
  BY <1>1, <1>a DEF PullTest, Goto, IInv, TypeOK, Place, Serving, polled, memory
<1>5. Dialogue(c)'
  <2>1. toClient[c] \in Seq(Answers) /\ index[s] \in Nat /\ index'[s] \in Nat /\ index[s] <= index'[s]
    BY <1>1 DEF PullTest, IInv, TypeOK
  <2>2. Served(c)' /\ at'[s] \in {"pull", "pulled"}
    BY <1>1 DEF PullTest, Goto, Served, IInv, TypeOK
  <2>3. QED
    BY <1>1, <2>1, <2>2 DEF PullTest, Dialogue, Pulling, Records, client
<1>6. Grants' /\ Holding
  <2>1. ASSUME NEW d \in Client, NEW r \in Record PROVE Holds(d, r)' <=> Holds(d, r)
    <3>1. CASE d = c
      BY <3>1, <1>1 DEF PullTest, Goto, Holds, IInv, TypeOK, client
    <3>2. CASE d # c
      BY <1>1, <3>2, <1>2, WorkOthers
    <3>3. QED
      BY <3>1, <3>2
  <2>2. QED
    BY <2>1, SameGrants DEF Holding, PullTest, IInv, memory
<1>7. QED
  BY <1>1, <1>2, <1>3, <1>4, <1>5, <1>6, WorkStep

LEMMA PullSendStep == ASSUME IInv, NEW s \in Server, PullSend(s) PROVE IInv' /\ Holding
<1>1. PICK c \in Client : /\ at[s] = "pulled" /\ c = conn[s] /\ Home[c] = s
                          /\ cat[c] = "pulling" /\ toServer[c] = <<>>
                          /\ Len(toClient[c]) <= index[s] /\ Records(toClient[c], Len(toClient[c]))
  BY AtWork DEF PullSend, Serving
<1> DEFINE m == [type |-> "record", rd |-> bulletinbuf[s][index[s]]]
<1>a. /\ index[s] \in Record /\ toClient[c] \in Seq(Answers)
      /\ \/ toClient'[c] = toClient[c]
         \/ m \in Answers /\ toClient'[c] = Append(toClient[c], m)
  <2>1. index[s] \in Record /\ toClient[c] \in Seq(Answers)
    BY <1>1 DEF IInv, TypeOK, Place
  <2>2. bulletinbuf[s][index[s]] \in Range(Text) \cup {None}
    BY <2>1 DEF IInv, TypeOK
  <2>3. CASE bulletinbuf[s][index[s]] = None
    <3>1. toClient' = toClient
      BY <2>3 DEF PullSend
    <3>2. QED
      BY <2>1, <3>1
  <2>4. CASE bulletinbuf[s][index[s]] # None
    <3>1. m \in Answers
      BY <2>2, <2>4 DEF Answers
    <3>2. toClient'[c] = Append(toClient[c], m)
      BY <1>1, <2>4 DEF PullSend, Send, IInv, TypeOK
    <3>3. QED
      BY <2>1, <3>1, <3>2
  <2>5. QED
    BY <2>3, <2>4
<1>b. /\ toClient'[c] \in Seq(Answers) /\ Len(toClient'[c]) <= index[s] + 1
      /\ Records(toClient'[c], Len(toClient'[c]))
  <2>1. Len(toClient[c]) \in Nat /\ index[s] \in Nat
    BY <1>a DEF Record
  <2>2. CASE toClient'[c] = toClient[c]
    BY <1>1, <1>a, <2>1, <2>2
  <2>3. CASE m \in Answers /\ toClient'[c] = Append(toClient[c], m)
    BY <1>1, <1>a, <2>1, <2>3 DEF Records
  <2>4. QED
    BY <1>a, <2>2, <2>3
<1>2. Work(s)
  BY <1>1 DEF PullSend, Work, Send, Goto, IInv, TypeOK, polled, client, memory
<1>3. TypeOK'
  <2>1. index' \in [Server -> 0..RECORD_NUM]
    <3>1. index[s] + 1 \in 0..RECORD_NUM
      BY <1>a, BulletinAssumption DEF Record
    <3>2. QED
      BY <3>1 DEF PullSend, IInv, TypeOK
  <2>2. toClient' \in [Client -> Seq(Answers)]
    BY <1>1, <1>b DEF PullSend, Send, IInv, TypeOK
  <2>3. \A d \in Client : Len(toClient'[d]) <= RECORD_NUM + 1
    <3>1. ASSUME NEW d \in Client PROVE Len(toClient'[d]) <= RECORD_NUM + 1
      <4>1. CASE d = c
        BY <4>1, <1>a, <1>b, BulletinAssumption DEF Record
      <4>2. CASE d # c
        BY <4>2, <1>1 DEF PullSend, Send, IInv, TypeOK
      <4>3. QED
        BY <4>1, <4>2
    <3>2. QED
      BY <3>1
  <2>4. QED
    BY <2>1, <2>2, <2>3 DEF PullSend, Goto, unlock, IInv, TypeOK, polled, client, memory
<1>4. Place(s)'
  BY <1>1 DEF PullSend, Goto, IInv, TypeOK, Place, Serving, polled, memory
<1>5. Dialogue(c)'
  <2>1. Served(c)' /\ at'[s] = "pull" /\ index'[s] = index[s] + 1
    BY <1>1 DEF PullSend, Goto, Served, IInv, TypeOK
  <2>2. QED
    BY <1>1, <1>b, <2>1 DEF PullSend, Dialogue, Pulling, client
<1>6. Grants' /\ Holding
  <2>1. ASSUME NEW d \in Client, NEW r \in Record PROVE Holds(d, r)' <=> Holds(d, r)
    <3>1. CASE d = c
      <4>1. InMessage(toClient'[c], "available", r) <=> InMessage(toClient[c], "available", r)
        BY <1>a, AppendOther
      <4>2. QED
        BY <3>1, <4>1, <1>1 DEF PullSend, Goto, Holds, IInv, TypeOK, client
    <3>2. CASE d # c
      BY <1>1, <3>2, <1>2, WorkOthers
    <3>3. QED
      BY <3>1, <3>2
  <2>2. QED
    BY <2>1, SameGrants DEF Holding, PullSend, IInv, memory
<1>7. QED
  BY <1>1, <1>2, <1>3, <1>4, <1>5, <1>6, WorkStep

LEMMA PullEndStep == ASSUME IInv, NEW s \in Server, PullEnd(s) PROVE IInv' /\ Holding
<1>1. PICK c \in Client : /\ at[s] = "pull" /\ c = conn[s] /\ Home[c] = s
                          /\ cat[c] = "pulling" /\ toServer[c] = <<>>
                          /\ Len(toClient[c]) <= index[s] /\ Records(toClient[c], Len(toClient[c]))
  BY AtWork DEF PullEnd, Serving
<1> DEFINE m == [type |-> "end"]
<1>a. /\ toClient[c] \in Seq(Answers) /\ m \in Answers /\ index[s] = RECORD_NUM
      /\ toClient'[c] = Append(toClient[c], m)
  BY <1>1 DEF PullEnd, Send, Answers, IInv, TypeOK
<1>b. /\ toClient'[c] \in Seq(Answers) /\ Len(toClient'[c]) \in 1..(RECORD_NUM + 1)
      /\ Records(toClient'[c], Len(toClient'[c]) - 1) /\ toClient'[c][Len(toClient'[c])].type = "end"
  BY <1>1, <1>a, BulletinAssumption DEF Records
<1>2. Work(s)
  BY <1>1 DEF PullEnd, Work, Send, NextRequest, IInv, TypeOK, polled, client
<1>3. TypeOK'
  <2>1. toClient' \in [Client -> Seq(Answers)]
    BY <1>1, <1>b DEF PullEnd, Send, IInv, TypeOK
  <2>2. \A d \in Client : Len(toClient'[d]) <= RECORD_NUM + 1
    <3>1. ASSUME NEW d \in Client PROVE Len(toClient'[d]) <= RECORD_NUM + 1
      <4>1. CASE d = c
        BY <4>1, <1>b, BulletinAssumption
      <4>2. CASE d # c
        BY <4>2, <1>1 DEF PullEnd, Send, IInv, TypeOK
      <4>3. QED
        BY <4>1, <4>2
    <3>2. QED
      BY <3>1
  <2>3. QED
    BY <2>1, <2>2, BulletinAssumption DEF PullEnd, NextRequest, Blank, IInv, TypeOK, file, polled, client
<1>4. Place(s)'
  BY <1>1, BulletinAssumption DEF PullEnd, NextRequest, IInv, TypeOK, Place, Serving, polled, Record
<1>5. Dialogue(c)'
  <2>1. ~Served(c)'
    BY <1>1, BulletinAssumption DEF PullEnd, NextRequest, Served, IInv, TypeOK
  <2>2. QED
    BY <1>1, <1>b, <2>1 DEF PullEnd, Dialogue, Pulling, client
<1>6. Grants' /\ Holding
  <2>1. ASSUME NEW d \in Client, NEW r \in Record PROVE Holds(d, r)' <=> Holds(d, r)
    <3>1. CASE d = c
      <4>1. InMessage(toClient'[c], "available", r) <=> InMessage(toClient[c], "available", r)
        BY <1>a, AppendOther
      <4>2. QED
        BY <3>1, <4>1, <1>1 DEF PullEnd, NextRequest, Holds, IInv, TypeOK, client
    <3>2. CASE d # c
      BY <1>1, <3>2, <1>2, WorkOthers
    <3>3. QED
      BY <3>1, <3>2
  <2>2. QED
    BY <2>1, SameGrants DEF Holding, PullEnd, IInv
<1>7. QED
  BY <1>1, <1>2, <1>3, <1>4, <1>5, <1>6, WorkStep

LEMMA GrantStep ==
    ASSUME IInv, NEW s \in Server, Grant(s)
    PROVE  /\ IInv'
           /\ \E c \in Client, r \in Record :
                 /\ c = conn[s] /\ r = index[s] /\ r \notin locked[s] /\ Holds(c, r)'
                 /\ \A d \in Client : \A q \in Record \ {r} : Holds(d, q)' <=> Holds(d, q)
<1>1. PICK c \in Client : /\ at[s] = "grant" /\ c = conn[s] /\ Home[c] = s
                          /\ cat[c] = "posting" /\ toServer[c] = <<>> /\ toClient[c] = <<>>
  BY AtWork DEF Grant, Serving
<1> DEFINE m(r) == [type |-> "available", pos |-> r]
<1>a. PICK r0 \in Record : r0 = index[s] /\ r0 \notin locked[s]
  BY <1>1 DEF IInv, Place
<1>b. toClient'[c] \in Seq(Answers) /\ Len(toClient'[c]) = 1 /\ toClient'[c][1] = m(r0)
  <2>1. m(r0) \in Answers /\ toClient[c] \in Seq(Answers)
    BY <1>a DEF Answers, IInv, TypeOK
  <2>2. toClient'[c] = Append(toClient[c], m(r0))
    BY <1>1, <1>a DEF Grant, Send, IInv, TypeOK
  <2>3. QED
    BY <1>1, <2>1, <2>2
<1>2. Work(s)
  BY <1>1 DEF Grant, Work, Send, NextRequest, IInv, TypeOK, polled, client
<1>3. TypeOK'
  <2>1. toClient' \in [Client -> Seq(Answers)] /\ \A d \in Client : Len(toClient'[d]) <= RECORD_NUM + 1
    BY <1>b, <1>1, BulletinAssumption DEF Grant, Send, IInv, TypeOK
  <2>2. locked' \in [Server -> SUBSET Record] /\ last' \in [Server -> Record]
    BY <1>a DEF Grant, IInv, TypeOK
  <2>3. owner' \in [Record -> Server \cup {None}]
    BY DEF Grant, write_lock, IInv, TypeOK
  <2>4. QED
    BY <2>1, <2>2, <2>3, BulletinAssumption DEF Grant, NextRequest, Blank, IInv, TypeOK, polled, client
<1>4. Place(s)'
  BY <1>1, BulletinAssumption DEF Grant, NextRequest, IInv, TypeOK, Place, Serving, polled, Record
<1>5. Dialogue(c)'
  <2>1. ~Served(c)'
    BY <1>1, BulletinAssumption DEF Grant, NextRequest, Served, IInv, TypeOK
  <2>2. QED
    BY <1>1, <1>b, <2>1 DEF Grant, Dialogue, Posting, client
<1>6. /\ Grants' /\ Holds(c, r0)'
      /\ \A d \in Client : \A q \in Record \ {r0} : Holds(d, q)' <=> Holds(d, q)
  <2>1. ASSUME NEW d \in Client, d # c PROVE \A r : Holds(d, r)' <=> Holds(d, r)
    BY <1>1, <1>2, <2>1, WorkOthers
  <2>2. \A r : ~Holds(c, r)
    BY <1>1 DEF Holds, InMessage
  <2>3. ASSUME NEW r PROVE Holds(c, r)' <=> r = r0
    <3>1. InMessage(toClient'[c], "available", r) <=> r = r0
      BY <1>b DEF InMessage
    <3>2. at'[s] # "finish" /\ toServer'[c] = <<>> /\ cat'[c] = "posting"
      BY <1>1 DEF Grant, NextRequest, IInv, TypeOK, client
    <3>3. QED
      BY <1>1, <3>1, <3>2 DEF Holds, InMessage
  <2>4. locked'[s] = locked[s] \cup {r0} /\ \A u \in Server \ {s} : locked'[u] = locked[u]
    BY <1>a DEF Grant, IInv, TypeOK
  <2>5. Grants
    BY DEF IInv
  <2>6. Grants'
    BY <1>1, <1>a, <2>1, <2>2, <2>3, <2>4, <2>5 DEF Grants
  <2>7. QED
    BY <2>1, <2>2, <2>3, <2>6
<1>7. IInv'
  BY <1>1, <1>2, <1>3, <1>4, <1>5, <1>6, WorkStep
<1>8. QED
  BY <1>1, <1>a, <1>6, <1>7

LEMMA FinishUnlockStep ==
    ASSUME IInv, NEW s \in Server, FinishUnlock(s)
    PROVE  /\ IInv'
           /\ \E r \in Record :
                 /\ r = index[s]
                 /\ \A d \in Client : \A q \in Record \ {r} : Holds(d, q)' <=> Holds(d, q)
<1>1. PICK c \in Client : /\ at[s] = "finish" /\ c = conn[s] /\ Home[c] = s
                          /\ toClient[c] = <<>> /\ cat[c] \in {"command", "posting", "pulling", "gone"}
                          /\ Len(toServer[c]) <= 1
                          /\ toServer[c] # <<>> => toServer[c][1].type # "finish"
  BY AtWork DEF FinishUnlock, Serving
<1>a. PICK r0 \in Record : r0 = index[s]
  BY <1>1 DEF IInv, Place
<1>2. Work(s)
  BY <1>1 DEF FinishUnlock, Work, NextRequest, IInv, TypeOK, polled, client
<1>3. TypeOK'
  <2>1. owner' \in [Record -> Server \cup {None}]
    BY DEF FinishUnlock, unlock, IInv, TypeOK
  <2>2. locked' \in [Server -> SUBSET Record]
    BY DEF FinishUnlock, IInv, TypeOK
  <2>3. at' \in [Server -> {"read", "write", "poll", "serve", "find", "found", "grant",
                            "pull", "pulled", "finish"}]
    BY DEF FinishUnlock, NextRequest, IInv, TypeOK
  <2>4. QED
    BY <2>1, <2>2, <2>3, BulletinAssumption DEF FinishUnlock, NextRequest, Blank, IInv, TypeOK, polled, client
<1>4. Place(s)'
  <2>1. /\ at'[s] = IF revents[s] = {} THEN "poll" ELSE "serve"
        /\ conn'[s] = None /\ index'[s] = 0 /\ revents' = revents
    BY DEF FinishUnlock, NextRequest, IInv, TypeOK, polled
  <2>2. QED
    BY <2>1, BulletinAssumption DEF Place, Serving, Record
<1>b. ~Served(c)' /\ Served(c)
  BY <1>1, BulletinAssumption DEF FinishUnlock, NextRequest, Served, IInv, TypeOK
<1>5. Dialogue(c)'
  <2>1. Dialogue(c)
    BY DEF IInv
  <2>2. QED
    BY <1>1, <1>b, <2>1 DEF FinishUnlock, Dialogue, Commands, Posting, Pulling, Unread, Silent, client
<1>6. /\ Grants'
      /\ \A d \in Client : \A q \in Record \ {r0} : Holds(d, q)' <=> Holds(d, q)
  <2>1. ASSUME NEW d \in Client, d # c PROVE \A r : Holds(d, r)' <=> Holds(d, r)
    BY <1>1, <1>2, <2>1, WorkOthers
  <2>2. ASSUME NEW r PROVE ~InMessage(toClient[c], "available", r) /\ ~InMessage(toServer[c], "finish", r)
    <3>1. toServer[c] \in Seq(Requests)
      BY DEF IInv, TypeOK
    <3>2. \A k \in DOMAIN toServer[c] : k = 1
      BY <1>1, <3>1
    <3>3. QED
      BY <1>1, <3>1, <3>2 DEF InMessage
  <2>3. \A r : Holds(c, r) <=> r = r0
    BY <1>1, <1>a, <2>2 DEF Holds
  <2>4. \A r : ~Holds(c, r)'
    <3>1. at'[s] # "finish" /\ UNCHANGED <<cat, toServer, toClient>>
      BY DEF FinishUnlock, NextRequest, IInv, TypeOK, client
    <3>2. QED
      BY <1>1, <2>2, <3>1 DEF Holds
  <2>5. locked'[s] = locked[s] \ {r0} /\ \A u \in Server \ {s} : locked'[u] = locked[u]
    BY <1>a DEF FinishUnlock, IInv, TypeOK
  <2>6. Grants
    BY DEF IInv
  <2>7. Grants'
    BY <1>1, <1>a, <2>1, <2>3, <2>4, <2>5, <2>6 DEF Grants
  <2>8. QED
    BY <2>1, <2>3, <2>4, <2>7
<1>7. IInv'
  BY <1>1, <1>2, <1>3, <1>4, <1>5, <1>6, WorkStep
<1>8. QED
  BY <1>a, <1>6, <1>7

-------------------------------------------------------------------------------
(* Steps of a server that read a request *)

\* Server s has read the first message of client c from slot k.
Took(s, c, k) == /\ k = Current(s) /\ c = fds[s][k] /\ Home[c] = s /\ k \in revents[s]
                 /\ at[s] = "serve" /\ conn[s] = None
                 /\ toServer' = [toServer EXCEPT ![c] = Tail(@)]
                 /\ revents' = [revents EXCEPT ![s] = @ \ {k}]
                 /\ UNCHANGED <<backlog, toClient, cat, pos, locked>>
                 /\ \A u \in Server \ {s} : /\ at'[u] = at[u] /\ conn'[u] = conn[u]
                                            /\ index'[u] = index[u] /\ fds'[u] = fds[u]
                 /\ \A l \in Slot \ {k} : fds'[s][l] = fds[s][l]
                 /\ fds'[s][k] \in {c, None} /\ conn'[s] \in {c, None}

\* The message was of type t.
Was(c, t) == /\ toServer[c] \in Seq(Requests) /\ toServer[c] # <<>>
             /\ toServer[c][1].type = t /\ toServer[c][1] \in Requests
             /\ toClient[c] = <<>>
             /\ t = "post" => cat[c] = "posting" /\ Len(toServer[c]) = 1
             /\ t = "pull" => cat[c] = "pulling" /\ Len(toServer[c]) = 1
             /\ t = "exit" => cat[c] = "gone" /\ Len(toServer[c]) = 1
             /\ t = "finish" =>
                   \/ Len(toServer[c]) = 1 /\ cat[c] = "command"
                   \/ Len(toServer[c]) = 2 /\ \/ cat[c] = "posting" /\ toServer[c][2].type = "post"
                                              \/ cat[c] = "pulling" /\ toServer[c][2].type = "pull"
                                              \/ cat[c] = "gone" /\ toServer[c][2].type = "exit"

LEMMA Reading ==
    ASSUME IInv, NEW s \in Server, NEW t \in {"post", "pull", "exit", "finish"}, Receive(s, t)
    PROVE  \E c \in Client, k \in Slot :
              /\ k = Current(s) /\ c = fds[s][k] /\ Home[c] = s /\ k \in revents[s]
              /\ at[s] = "serve" /\ conn[s] = None
              /\ toServer' = [toServer EXCEPT ![c] = Tail(@)]
              /\ revents' = [revents EXCEPT ![s] = @ \ {k}]
              /\ Request(s) = toServer[c][1]
              /\ Was(c, t)
<1>1. at[s] = "serve" /\ conn[s] = None /\ revents[s] # {}
  BY DEF IInv, Place, Receive, Serving
<1>2. PICK k \in Slot : k = Current(s) /\ k \in revents[s]
  <2>1. revents[s] \in SUBSET Slot /\ revents[s] \in SUBSET Nat
    BY DEF IInv, TypeOK, Slot
  <2>2. QED
    BY <1>1, <2>1, MinIn DEF Current
<1>3. PICK c \in Client : c = fds[s][k] /\ Home[c] = s /\ toServer[c] # <<>> /\ cat[c] # "new"
  BY <1>2 DEF IInv, Seats, SlotsExact, TypeOK
<1>4. toServer[c] \in Seq(Requests) /\ toServer[c][1] \in Requests
  BY <1>3 DEF IInv, TypeOK
<1>5. Request(s) = toServer[c][1] /\ toServer[c][1].type = t
  BY <1>2, <1>3, <1>4 DEF Request, Receive
<1>6. Was(c, t)
  <2>1. Dialogue(c) /\ ~Served(c)
    BY <1>1, <1>3, BulletinAssumption DEF IInv, Served
  <2>2. cat[c] \in {"pulling", "command", "posting", "typing", "gone"}
    BY <1>3 DEF IInv, TypeOK
  <2>3. CASE cat[c] = "command"
    <3>a. Len(toServer[c]) <= 1
      BY <2>1, <2>3 DEF Dialogue, Commands
    <3>1. toClient[c] = <<>> /\ t = "finish"
      BY <1>3, <1>5, <2>1, <2>3 DEF Dialogue, Commands
    <3>2. Len(toServer[c]) = 1
      <4>1. Len(toServer[c]) \in Nat /\ Len(toServer[c]) # 0
        BY <1>3, <1>4, Empty
      <4>2. QED
        BY <3>a, <4>1, AtMostOne
    <3>3. QED
      BY <1>3, <1>4, <1>5, <2>3, <3>1, <3>2 DEF Was
  <2>4. ASSUME NEW a, Unread(c, a), <<cat[c], a>> \in {<<"posting", "post">>, <<"pulling", "pull">>, <<"gone", "exit">>}
        PROVE  Was(c, t)
    <3>1. Len(toServer[c]) \in {1, 2} /\ toClient[c] = <<>>
      BY <2>4 DEF Unread
    <3>2. CASE Len(toServer[c]) = 1
      BY <1>3, <1>4, <1>5, <2>4, <3>1, <3>2 DEF Was, Unread
    <3>3. CASE Len(toServer[c]) = 2
      BY <1>3, <1>4, <1>5, <2>4, <3>1, <3>3 DEF Was, Unread
    <3>4. QED
      BY <3>1, <3>2, <3>3
  <2>5. QED
    BY <1>3, <2>1, <2>2, <2>3, <2>4 DEF Dialogue, Silent, Posting, Pulling
<1>7. QED
  BY <1>1, <1>2, <1>3, <1>5, <1>6 DEF Receive

LEMMA TookSeats ==
    ASSUME IInv, NEW s \in Server, NEW c \in Client, NEW k \in Slot, Took(s, c, k),
           cat[c] = "gone" => Tail(toServer[c]) # <<>> \/ fds'[s][k] = None
    PROVE  SlotsExact' /\ \A u \in Server : Seats(u)'
<1>1. ASSUME NEW u \in Server, NEW l \in Slot, fds'[u][l] # None
      PROVE  /\ fds'[u][l] = fds[u][l] /\ fds[u][l] \in Client
             /\ fds[u][l] = c => u = s /\ l = k
  BY <1>1 DEF Took, IInv, SlotsExact, TypeOK
<1>2. \A d \in Client : d # c => toServer'[d] = toServer[d]
  BY DEF Took, IInv, TypeOK
<1>3. toServer'[c] = Tail(toServer[c])
  BY DEF Took, IInv, TypeOK
<1>4. SlotsExact'
  <2> SUFFICES ASSUME NEW u \in Server, NEW l \in Slot, fds'[u][l] # None
               PROVE  /\ \A n \in Slot \ {l} : fds'[u][n] # fds'[u][l]
                      /\ Home[fds'[u][l]] = u /\ fds'[u][l] \notin Range(backlog'[u])
                      /\ cat'[fds'[u][l]] = "gone" => toServer'[fds'[u][l]] # <<>>
    BY DEF SlotsExact
  <2>1. \A n \in Slot \ {l} : fds'[u][n] # fds'[u][l]
    <3>1. SUFFICES ASSUME NEW n \in Slot \ {l}, fds'[u][n] = fds'[u][l] PROVE FALSE
      OBVIOUS
    <3>2. fds[u][l] # None /\ fds[u][n] = fds[u][l]
      BY <1>1, <3>1
    <3>3. QED
      BY <3>2 DEF IInv, SlotsExact
  <2>2. Home[fds'[u][l]] = u /\ fds'[u][l] \notin Range(backlog'[u])
    BY <1>1 DEF Took, IInv, SlotsExact
  <2>3. cat'[fds'[u][l]] = "gone" => toServer'[fds'[u][l]] # <<>>
    BY <1>1, <1>2, <1>3 DEF Took, IInv, SlotsExact
  <2>4. QED
    BY <2>1, <2>2, <2>3
<1>5. ASSUME NEW u \in Server PROVE Seats(u)'
  <2>1. Seats(u) /\ backlog[u] \in Seq(Client) /\ None \notin Client
    BY BulletinAssumption DEF IInv, TypeOK
  <2>2. ASSUME NEW l \in DOMAIN backlog[u] PROVE conn'[u] # backlog[u][l]
    <3>1. backlog[u][l] \in Range(backlog[u]) /\ backlog[u][l] \in Client
      BY <2>1, ElementOfSeq DEF Range
    <3>2. backlog[u][l] # c \/ u # s
      BY <3>1, BulletinAssumption DEF Took, IInv, SlotsExact
    <3>3. QED
      BY <2>1, <3>1, <3>2 DEF Seats, Took
  <2>3. \A l \in Slot : fds'[u][l] # None => cat'[fds'[u][l]] # "new"
    BY <1>1, <2>1 DEF Seats, Took
  <2>4. ASSUME NEW l \in revents'[u] PROVE fds'[u][l] # None /\ toServer'[fds'[u][l]] # <<>>
    <3>1. l \in revents[u] /\ l \in Slot /\ (u # s \/ l # k)
      BY DEF Took, IInv, TypeOK
    <3>2. fds'[u][l] = fds[u][l]
      BY <3>1 DEF Took
    <3>3. fds[u][l] # None /\ toServer[fds[u][l]] # <<>>
      BY <2>1, <3>1 DEF Seats
    <3>4. QED
      BY <1>1, <1>2, <3>1, <3>2, <3>3
  <2>5. QED
    BY <2>1, <2>2, <2>3, <2>4 DEF Seats, Took
<1>6. QED
  BY <1>4, <1>5

LEMMA TookOthers ==
    ASSUME IInv, NEW s \in Server, NEW c \in Client, NEW k \in Slot, Took(s, c, k), NEW d \in Client, d # c
    PROVE  Dialogue(d)' /\ \A r : Holds(d, r)' <=> Holds(d, r)
<1>1. /\ cat'[d] = cat[d] /\ pos'[d] = pos[d]
      /\ toServer'[d] = toServer[d] /\ toClient'[d] = toClient[d]
  BY DEF Took, IInv, TypeOK
<1>2. Served(d)' <=> Served(d)
  BY BulletinAssumption DEF Took, Served
<1>3. Served(d) => at'[Home[d]] = at[Home[d]] /\ index'[Home[d]] = index[Home[d]]
  BY BulletinAssumption DEF Took, Served
<1>4. Dialogue(d)
  BY DEF IInv
<1>5. Dialogue(d)'
  BY <1>1, <1>2, <1>3, <1>4 DEF Dialogue, Silent, Commands, Posting, Pulling, Unread, Records
<1>6. ASSUME NEW r PROVE Holds(d, r)' <=> Holds(d, r)
  BY <1>1, <1>2, <1>3 DEF Holds, Served
<1>7. QED
  BY <1>5, <1>6

\* What is left to show of such a step.
LEMMA TookStep ==
    ASSUME IInv, NEW s \in Server, NEW c \in Client, NEW k \in Slot, Took(s, c, k),
           cat[c] = "gone" => Tail(toServer[c]) # <<>> \/ fds'[s][k] = None,
           TypeOK', Place(s)', Dialogue(c)', \A r \in Record : Holds(c, r)' <=> Holds(c, r)
    PROVE  IInv' /\ Holding
<1>1. ASSUME NEW u \in Server PROVE Place(u)'
  <2>1. CASE u = s
    BY <2>1
  <2>2. CASE u # s
    <3>1. revents'[u] = revents[u]
      BY <2>2 DEF Took, IInv, TypeOK
    <3>2. QED
      BY <2>2, <3>1 DEF Took, IInv, Place
  <2>3. QED
    BY <2>1, <2>2
<1>2. ASSUME NEW d \in Client PROVE Dialogue(d)' /\ \A r \in Record : Holds(d, r)' <=> Holds(d, r)
  BY TookOthers
<1>3. Grants' /\ Holding
  BY <1>2, SameGrants DEF Holding, Took, IInv
<1>4. QED
  BY <1>1, <1>2, <1>3, TookSeats DEF IInv

\* Types after a request has been read.
LEMMA TookType ==
    ASSUME IInv, NEW s \in Server, NEW c \in Client, NEW k \in Slot, Took(s, c, k), toServer[c] # <<>>
    PROVE  /\ toServer' \in [Client -> Seq(Requests)] /\ revents' \in [Server -> SUBSET Slot]
           /\ \A d \in Client : Len(toServer'[d]) <= 2
<1>1. toServer[c] \in Seq(Requests) /\ Len(toServer[c]) <= 2
  BY DEF IInv, TypeOK
<1>2. Tail(toServer[c]) \in Seq(Requests) /\ Len(Tail(toServer[c])) <= 2
  BY <1>1, HeadTailProperties
<1>3. QED
  BY <1>2 DEF Took, IInv, TypeOK

LEMMA PostStep == ASSUME IInv, NEW s \in Server, Post(s) PROVE IInv' /\ Holding
<1>1. PICK c \in Client, k \in Slot :
              /\ k = Current(s) /\ c = fds[s][k] /\ Home[c] = s /\ k \in revents[s]
              /\ at[s] = "serve" /\ conn[s] = None
              /\ toServer' = [toServer EXCEPT ![c] = Tail(@)]
              /\ revents' = [revents EXCEPT ![s] = @ \ {k}]
              /\ Was(c, "post")
  BY Reading DEF Post
<1>2. Took(s, c, k)
  BY <1>1 DEF Took, Post, SetConn, Goto, IInv, TypeOK, client, memory
<1>3. toServer'[c] = <<>> /\ cat[c] = "posting" /\ toClient'[c] = <<>> /\ cat'[c] = "posting"
  BY <1>1, TailOfOne DEF Was, IInv, TypeOK, Post, client
<1>4. (last[s] + 1) % RECORD_NUM \in Record
  <2>1. last[s] + 1 \in Int
    BY BulletinAssumption DEF IInv, TypeOK, Record
  <2>2. QED
    BY <2>1, ModRange
<1>5. conn'[s] = c /\ at'[s] = "find" /\ index'[s] \in Record
  BY <1>1, <1>4 DEF Post, SetConn, Goto, IInv, TypeOK
<1>6. TypeOK'
  <2>1. index' \in [Server -> 0..RECORD_NUM] /\ tries' \in [Server -> 0..RECORD_NUM]
    BY <1>4, BulletinAssumption DEF Post, IInv, TypeOK, Record
  <2>2. conn' \in [Server -> Client \cup {None}]
    BY <1>1 DEF Post, SetConn, IInv, TypeOK
  <2>3. toServer[c] # <<>>
    BY <1>1 DEF Was
  <2>4. QED
    BY <1>2, <2>1, <2>2, <2>3, TookType DEF Post, Goto, IInv, TypeOK, file, memory, client
<1>7. Place(s)'
  BY <1>1, <1>5, BulletinAssumption DEF Place, Serving
<1>8. Dialogue(c)'
  BY <1>1, <1>3, <1>5 DEF Dialogue, Posting, Served
<1>9. ASSUME NEW r \in Record PROVE Holds(c, r)' <=> Holds(c, r)
  <2>1. ~InMessage(toServer[c], "finish", r)
    BY <1>1 DEF Was, InMessage
  <2>2. QED
    BY <1>1, <1>3, <1>5, <2>1 DEF Was, Holds, InMessage
<1>10. QED
  BY <1>2, <1>3, <1>6, <1>7, <1>8, <1>9, TookStep

LEMMA PullStep == ASSUME IInv, NEW s \in Server, Pull(s) PROVE IInv' /\ Holding
<1>1. PICK c \in Client, k \in Slot :
              /\ k = Current(s) /\ c = fds[s][k] /\ Home[c] = s /\ k \in revents[s]
              /\ at[s] = "serve" /\ conn[s] = None
              /\ toServer' = [toServer EXCEPT ![c] = Tail(@)]
              /\ revents' = [revents EXCEPT ![s] = @ \ {k}]
              /\ Was(c, "pull")
  BY Reading DEF Pull
<1>2. Took(s, c, k)
  BY <1>1 DEF Took, Pull, SetConn, Goto, IInv, TypeOK, client
<1>3. toServer'[c] = <<>> /\ cat[c] = "pulling" /\ toClient'[c] = <<>> /\ cat'[c] = "pulling"
  BY <1>1, TailOfOne DEF Was, IInv, TypeOK, Pull, client
<1>5. conn'[s] = c /\ at'[s] = "pull" /\ index'[s] = 0
  BY <1>1 DEF Pull, SetConn, Goto, IInv, TypeOK
<1>6. TypeOK'
  <2>1. index' \in [Server -> 0..RECORD_NUM]
    BY BulletinAssumption DEF Pull, IInv, TypeOK
  <2>2. conn' \in [Server -> Client \cup {None}]
    BY <1>1 DEF Pull, SetConn, IInv, TypeOK
  <2>3. toServer[c] # <<>>
    BY <1>1 DEF Was
  <2>4. QED
    BY <1>2, <2>1, <2>2, <2>3, TookType DEF Pull, Goto, IInv, TypeOK, file, client
<1>7. Place(s)'
  BY <1>1, <1>5, BulletinAssumption DEF Place, Serving
<1>8. Dialogue(c)'
  BY <1>1, <1>3, <1>5 DEF Dialogue, Pulling, Served, Records
<1>9. ASSUME NEW r \in Record PROVE Holds(c, r)' <=> Holds(c, r)
  <2>1. ~InMessage(toServer[c], "finish", r)
    BY <1>1 DEF Was, InMessage
  <2>2. QED
    BY <1>1, <1>3, <1>5, <2>1 DEF Was, Holds, InMessage
<1>10. QED
  BY <1>2, <1>3, <1>6, <1>7, <1>8, <1>9, TookStep

LEMMA CloseClientStep == ASSUME IInv, NEW s \in Server, CloseClient(s) PROVE IInv' /\ Holding
<1>1. PICK c \in Client, k \in Slot :
              /\ k = Current(s) /\ c = fds[s][k] /\ Home[c] = s /\ k \in revents[s]
              /\ at[s] = "serve" /\ conn[s] = None
              /\ toServer' = [toServer EXCEPT ![c] = Tail(@)]
              /\ revents' = [revents EXCEPT ![s] = @ \ {k}]
              /\ Was(c, "exit")
  BY Reading DEF CloseClient
<1>2. fds'[s][k] = None /\ fds' \in [Server -> [Slot -> Client \cup {None}]]
  BY <1>1 DEF CloseClient, IInv, TypeOK
<1>3. Took(s, c, k)
  BY <1>1, <1>2 DEF Took, CloseClient, NextRequest, IInv, TypeOK, client
<1>4. toServer'[c] = <<>> /\ cat[c] = "gone" /\ toClient'[c] = <<>> /\ cat'[c] = "gone"
  BY <1>1, TailOfOne DEF Was, IInv, TypeOK, CloseClient, client
<1>5. /\ conn'[s] = None /\ index'[s] = 0
      /\ at'[s] = IF revents'[s] = {} THEN "poll" ELSE "serve"
  BY <1>1 DEF CloseClient, NextRequest, IInv, TypeOK
<1>6. TypeOK'
  <2>1. at' \in [Server -> {"read", "write", "poll", "serve", "find", "found", "grant",
                            "pull", "pulled", "finish"}]
    BY DEF CloseClient, NextRequest, IInv, TypeOK
  <2>2. toServer[c] # <<>>
    BY <1>1 DEF Was
  <2>3. /\ conn' \in [Server -> Client \cup {None}]
        /\ index' \in [Server -> 0..RECORD_NUM] /\ tries' \in [Server -> 0..RECORD_NUM]
        /\ bulletinbuf' \in [Server -> [Record -> Range(Text) \cup {None}]]
    BY BulletinAssumption DEF CloseClient, NextRequest, Blank, IInv, TypeOK
  <2>4. /\ toServer' \in [Client -> Seq(Requests)] /\ revents' \in [Server -> SUBSET Slot]
        /\ \A d \in Client : Len(toServer'[d]) <= 2
    BY <1>3, <2>2, TookType
  <2>5. QED
    BY <1>2, <2>1, <2>3, <2>4 DEF CloseClient, IInv, TypeOK, file, client
<1>7. Place(s)'
  BY <1>1, <1>5, BulletinAssumption DEF Place, Serving, Record
<1>8. Dialogue(c)'
  BY <1>1, <1>4, <1>5, BulletinAssumption DEF Dialogue, Silent, Served
<1>9. ASSUME NEW r \in Record PROVE Holds(c, r)' <=> Holds(c, r)
  <2>1. ~InMessage(toServer[c], "finish", r)
    BY <1>1 DEF Was, InMessage
  <2>2. QED
    BY <1>1, <1>4, <1>5, <2>1 DEF Was, Holds, InMessage
<1>10. QED
  BY <1>2, <1>3, <1>6, <1>7, <1>8, <1>9, TookStep

LEMMA FinishStep == ASSUME IInv, NEW s \in Server, Finish(s) PROVE IInv' /\ Holding
<1>1. PICK c \in Client, k \in Slot :
              /\ k = Current(s) /\ c = fds[s][k] /\ Home[c] = s /\ k \in revents[s]
              /\ at[s] = "serve" /\ conn[s] = None
              /\ toServer' = [toServer EXCEPT ![c] = Tail(@)]
              /\ revents' = [revents EXCEPT ![s] = @ \ {k}]
              /\ Request(s) = toServer[c][1]
              /\ Was(c, "finish")
  BY Reading DEF Finish
<1>2. Took(s, c, k)
  BY <1>1 DEF Took, Finish, SetConn, Goto, IInv, TypeOK, client, memory
<1>3. Request(s).pos \in Record /\ Request(s).rd \in Range(Text)
  <2>1. Request(s) \in Requests /\ Request(s).type = "finish"
    BY <1>1 DEF Was
  <2>2. Request(s) \in [type : {"finish"}, pos : Record, rd : Range(Text)]
    BY <2>1 DEF Requests
  <2>3. QED
    BY <2>2
<1>4. /\ toServer'[c] = Tail(toServer[c]) /\ toServer[c] \in Seq(Requests)
      /\ toClient'[c] = <<>> /\ cat'[c] = cat[c]
  BY <1>1 DEF Was, IInv, TypeOK, Finish, client
<1>5. conn'[s] = c /\ at'[s] = "finish" /\ index'[s] = Request(s).pos
  BY <1>1 DEF Finish, SetConn, Goto, IInv, TypeOK
<1>6. TypeOK'
  <2>1. index' \in [Server -> 0..RECORD_NUM]
    BY <1>3, BulletinAssumption DEF Finish, IInv, TypeOK, Record
  <2>2. conn' \in [Server -> Client \cup {None}]
    BY <1>1 DEF Finish, SetConn, IInv, TypeOK
  <2>3. board' \in [Record -> Range(Text) \cup {None}]
    BY <1>3 DEF Finish, IInv, TypeOK
  <2>4. toServer[c] # <<>>
    BY <1>1 DEF Was
  <2>5. /\ toServer' \in [Client -> Seq(Requests)] /\ revents' \in [Server -> SUBSET Slot]
        /\ \A d \in Client : Len(toServer'[d]) <= 2
    BY <1>2, <2>4, TookType
  <2>6. QED
    BY <2>1, <2>2, <2>3, <2>5 DEF Finish, Goto, IInv, TypeOK, memory, client
<1>7. Place(s)'
  BY <1>1, <1>3, <1>5, BulletinAssumption DEF Place, Serving
<1>8. /\ Dialogue(c)'
      /\ cat[c] = "gone" => Tail(toServer[c]) # <<>>
      /\ \A r \in Record : ~InMessage(toServer'[c], "finish", r)
  <2>1. CASE Len(toServer[c]) = 1
    <3>1. toServer'[c] = <<>> /\ cat[c] = "command"
      BY <1>1, <1>4, <2>1, TailOfOne DEF Was
    <3>2. \A r \in Record : ~InMessage(toServer'[c], "finish", r)
      BY <3>1 DEF InMessage
    <3>3. Len(toServer'[c]) <= 1
      BY <3>1
    <3>4. Commands(c)'
      BY <1>1, <1>4, <1>5, <3>1, <3>3 DEF Commands
    <3>5. Dialogue(c)'
      BY <1>4, <3>1, <3>4 DEF Dialogue
    <3>6. QED
      BY <3>1, <3>2, <3>5
  <2>2. CASE Len(toServer[c]) = 2
    <3>1. /\ toServer'[c] \in Seq(Requests) /\ Len(toServer'[c]) = 1 /\ toServer'[c] # <<>>
          /\ toServer'[c][1] = toServer[c][2]
      <4>1. toServer[c] # <<>>
        BY <1>1 DEF Was
      <4>2. /\ Tail(toServer[c]) \in Seq(Requests) /\ Len(Tail(toServer[c])) = 1
            /\ Tail(toServer[c])[1] = toServer[c][2]
        BY <1>4, <2>2, <4>1, HeadTailProperties
      <4>3. Tail(toServer[c]) # <<>>
        BY <4>2, NotEmpty
      <4>4. QED
        BY <1>4, <4>2, <4>3
    <3>2. \A r \in Record : ~InMessage(toServer'[c], "finish", r)
      BY <1>1, <2>2, <3>1 DEF Was, InMessage
    <3>3. ASSUME NEW t, toServer[c][2].type = t PROVE Unread(c, t)'
      <4>1. toServer'[c][Len(toServer'[c])].type = t
        BY <3>1, <3>3
      <4>2. at'[Home[c]] = "finish"
        BY <1>1, <1>5
      <4>3. Len(toServer'[c]) \in {1, 2} /\ Len(toServer'[c]) # 2 /\ Len(toServer'[c]) = 1
        BY <3>1
      <4>4. QED
        BY <1>4, <4>1, <4>2, <4>3 DEF Unread
    <3>4. Dialogue(c)'
      BY <1>1, <1>4, <2>2, <3>3 DEF Was, Dialogue, Posting, Pulling
    <3>5. QED
      BY <1>4, <3>1, <3>2, <3>4
  <2>3. QED
    BY <1>1, <2>1, <2>2 DEF Was
<1>9. ASSUME NEW r \in Record PROVE Holds(c, r)' <=> Holds(c, r)
  <2>1. InMessage(toServer[c], "finish", r) <=> r = Request(s).pos
    <3>1. DOMAIN toServer[c] \subseteq {1, 2} /\ 1 \in DOMAIN toServer[c]
      BY <1>1 DEF Was
    <3>2. 2 \in DOMAIN toServer[c] => toServer[c][2].type # "finish"
      BY <1>1 DEF Was
    <3>3. QED
      BY <1>1, <3>1, <3>2 DEF InMessage, Was
  <2>2. cat[c] # "typing" /\ ~InMessage(toClient[c], "available", r) /\ ~InMessage(toClient'[c], "available", r)
    BY <1>1, <1>4 DEF Was, InMessage
  <2>3. QED
    BY <1>1, <1>4, <1>5, <1>8, <2>1, <2>2 DEF Holds
<1>10. QED
  BY <1>2, <1>6, <1>7, <1>8, <1>9, TookStep

-------------------------------------------------------------------------------
(* Steps of a server that waits *)

LEMMA TailElements ==
    ASSUME NEW S, NEW q \in Seq(S), q # <<>>
    PROVE  /\ Tail(q) \in Seq(S) /\ 1 \in DOMAIN q /\ Head(q) = q[1]
           /\ \A k \in DOMAIN Tail(q) : k \in Nat \ {0} /\ k + 1 \in DOMAIN q /\ Tail(q)[k] = q[k + 1]
<1>1. Len(q) \in Nat /\ Len(q) # 0 /\ DOMAIN q = 1..Len(q)
  BY Empty
<1>2. /\ Tail(q) \in Seq(S) /\ Len(Tail(q)) = Len(q) - 1 /\ Head(q) = q[1]
      /\ \A k \in 1..Len(Tail(q)) : Tail(q)[k] = q[k + 1]
  BY HeadTailProperties
<1>3. DOMAIN Tail(q) = 1..(Len(q) - 1)
  BY <1>2
<1>4. QED
  BY <1>1, <1>2, <1>3

\* Each connection in the backlog of s is accepted or stays where it is.
LEMMA PollSeats ==
    ASSUME IInv, NEW s \in Server, Poll(s)
    PROVE  /\ backlog' \in [Server -> Seq(Client)] /\ fds' \in [Server -> [Slot -> Client \cup {None}]]
           /\ SlotsExact' /\ \A u \in Server : Seats(u)'
<1> DEFINE ready == {k \in Slot : fds[s][k] # None /\ toServer[fds[s][k]] # <<>>}
<1>1. /\ revents' = [revents EXCEPT ![s] = ready] /\ at[s] = "poll"
      /\ UNCHANGED <<conn, toServer, toClient, cat>>
  BY DEF Poll, client
<1>2. /\ fds \in [Server -> [Slot -> Client \cup {None}]] /\ backlog \in [Server -> Seq(Client)]
      /\ revents \in [Server -> SUBSET Slot] /\ None \notin Client
  BY BulletinAssumption DEF IInv, TypeOK
<1>3. CASE backlog[s] = <<>>
  <2>1. UNCHANGED <<fds, backlog>>
    BY <1>3 DEF Poll
  <2>2. SlotsExact'
    BY <1>1, <2>1 DEF IInv, SlotsExact
  <2>3. ASSUME NEW u \in Server PROVE Seats(u)'
    <3>1. Seats(u)
      BY DEF IInv
    <3>2. \A k \in revents'[u] : fds[u][k] # None /\ toServer[fds[u][k]] # <<>>
      BY <1>1, <1>2, <3>1 DEF Seats
    <3>3. QED
      BY <1>1, <2>1, <3>1, <3>2 DEF Seats
  <2>4. QED
    BY <1>2, <2>1, <2>2, <2>3
<1>4. CASE backlog[s] # <<>>
  <2>1. backlog[s] \in Seq(Client)
    BY <1>2
  <2>2. /\ Tail(backlog[s]) \in Seq(Client) /\ 1 \in DOMAIN backlog[s] /\ Head(backlog[s]) = backlog[s][1]
        /\ \A k \in DOMAIN Tail(backlog[s]) : /\ k \in Nat \ {0} /\ k + 1 \in DOMAIN backlog[s]
                                              /\ Tail(backlog[s])[k] = backlog[s][k + 1]
    BY <1>4, <2>1, TailElements
  <2>3. /\ backlog' = [backlog EXCEPT ![s] = Tail(@)]
        /\ fds' = [fds EXCEPT ![s] = Accepted(s)]
    BY <1>4 DEF Poll
  <2>4. PICK h \in Client : h = Head(backlog[s]) /\ h = backlog[s][1]
    BY <2>1, <2>2, ElementOfSeq
  <2>5. /\ Home[h] = s /\ cat[h] = "pulling" /\ h \in Range(backlog[s])
        /\ \A l \in DOMAIN backlog[s] : backlog[s][l] = h => l = 1
    BY <2>2, <2>4 DEF IInv, Seats, Range
  <2>6. \E m \in Slot \cup {0} : /\ Accepted(s) \in [Slot -> Client \cup {None}]
                                 /\ \A l \in Slot \ {m} : Accepted(s)[l] = fds[s][l]
                                 /\ m # 0 => fds[s][m] = None /\ Accepted(s)[m] = h
    <3>1. CASE FreeSlots(s) = {}
      BY <1>2, <3>1 DEF Accepted
    <3>2. CASE FreeSlots(s) # {}
      <4>1. FreeSlots(s) \in SUBSET Nat
        BY DEF FreeSlots, Slot
      <4>2. Min(FreeSlots(s)) \in FreeSlots(s)
        BY <3>2, <4>1, MinIn
      <4>3. PICK m \in Slot : m = Min(FreeSlots(s)) /\ fds[s][m] = None
        BY <4>2 DEF FreeSlots
      <4>4. Accepted(s) = [fds[s] EXCEPT ![m] = h]
        BY <2>4, <3>2, <4>3 DEF Accepted
      <4>5. /\ Accepted(s) \in [Slot -> Client \cup {None}]
            /\ \A l \in Slot \ {m} : Accepted(s)[l] = fds[s][l]
            /\ Accepted(s)[m] = h
        BY <1>2, <4>4
      <4>6. QED
        BY <4>3, <4>5
    <3>3. QED
      BY <3>1, <3>2
  <2>7. PICK m \in Slot \cup {0} : /\ Accepted(s) \in [Slot -> Client \cup {None}]
                                   /\ \A l \in Slot \ {m} : Accepted(s)[l] = fds[s][l]
                                   /\ m # 0 => fds[s][m] = None /\ Accepted(s)[m] = h
    BY <2>6
  <2>8. 0 \notin Slot
    BY DEF Slot
  <2>9. /\ fds' \in [Server -> [Slot -> Client \cup {None}]]
        /\ \A u \in Server \ {s} : fds'[u] = fds[u] /\ backlog'[u] = backlog[u] /\ revents'[u] = revents[u]
        /\ \A l \in Slot \ {m} : fds'[s][l] = fds[s][l]
        /\ m # 0 => fds[s][m] = None /\ fds'[s][m] = h
        /\ backlog'[s] = Tail(backlog[s]) /\ revents'[s] = ready
    BY <1>1, <1>2, <2>3, <2>7, <2>8
  <2>10. backlog' \in [Server -> Seq(Client)]
    BY <1>2, <2>2, <2>3
  <2>11. Range(backlog'[s]) \subseteq Range(backlog[s]) /\ h \notin Range(backlog'[s])
    BY <2>2, <2>5, <2>9 DEF Range
  <2>12. ASSUME NEW l \in Slot, fds[s][l] # None PROVE fds[s][l] # h
    BY <2>5, <2>12 DEF IInv, SlotsExact
  <2>13. SlotsExact'
    <3> SUFFICES ASSUME NEW u \in Server, NEW l \in Slot, fds'[u][l] # None
                 PROVE  /\ \A n \in Slot \ {l} : fds'[u][n] # fds'[u][l]
                        /\ Home[fds'[u][l]] = u /\ fds'[u][l] \notin Range(backlog'[u])
                        /\ cat'[fds'[u][l]] = "gone" => toServer'[fds'[u][l]] # <<>>
      BY DEF SlotsExact
    <3>1. CASE u # s
      BY <1>1, <2>9, <3>1 DEF IInv, SlotsExact
    <3>2. CASE u = s /\ l = m
      <4>1. fds'[s][m] = h /\ fds[s][m] = None
        BY <2>8, <2>9, <3>2
      <4>2. \A n \in Slot \ {l} : fds'[s][n] # h
        BY <1>2, <2>9, <2>12, <3>2
      <4>3. QED
        BY <1>1, <2>5, <2>11, <3>2, <4>1, <4>2
    <3>3. CASE u = s /\ l # m
      <4>1. fds'[s][l] = fds[s][l] /\ fds[s][l] # None
        BY <2>9, <3>3
      <4>2. /\ \A n \in Slot \ {l} : fds[s][n] # fds[s][l]
            /\ Home[fds[s][l]] = s /\ fds[s][l] \notin Range(backlog[s])
            /\ cat[fds[s][l]] = "gone" => toServer[fds[s][l]] # <<>>
        BY <4>1 DEF IInv, SlotsExact
      <4>3. \A n \in Slot \ {l} : fds'[s][n] # fds[s][l]
        BY <2>8, <2>9, <2>12, <4>1, <4>2
      <4>4. QED
        BY <1>1, <2>11, <3>3, <4>1, <4>2, <4>3
    <3>4. QED
      BY <3>1, <3>2, <3>3
  <2>14. ASSUME NEW u \in Server PROVE Seats(u)'
    <3>1. Seats(u) /\ Seats(s)
      BY DEF IInv
    <3>2. CASE u # s
      BY <1>1, <2>9, <3>1, <3>2 DEF Seats
    <3>3. CASE u = s
      <4>1. \A k \in Slot : fds'[s][k] # None => cat'[fds'[s][k]] # "new"
        BY <1>1, <2>5, <2>8, <2>9, <3>1 DEF Seats
      <4>2. ASSUME NEW k \in DOMAIN backlog'[s]
            PROVE  /\ Home[backlog'[s][k]] = s /\ cat[backlog'[s][k]] = "pulling"
                   /\ toClient[backlog'[s][k]] = <<>> /\ conn[s] # backlog'[s][k]
                   /\ \A l \in DOMAIN backlog'[s] : backlog'[s][l] = backlog'[s][k] => l = k
        <5>1. k \in Nat /\ k + 1 \in DOMAIN backlog[s] /\ backlog'[s][k] = backlog[s][k + 1]
          BY <2>2, <2>9
        <5>2. /\ Home[backlog[s][k + 1]] = s /\ cat[backlog[s][k + 1]] = "pulling"
              /\ toClient[backlog[s][k + 1]] = <<>> /\ conn[s] # backlog[s][k + 1]
              /\ \A l \in DOMAIN backlog[s] : backlog[s][l] = backlog[s][k + 1] => l = k + 1
          BY <3>1, <5>1 DEF Seats
        <5>3. ASSUME NEW l \in DOMAIN backlog'[s], backlog'[s][l] = backlog'[s][k] PROVE l = k
          <6>1. l \in Nat /\ l + 1 \in DOMAIN backlog[s] /\ backlog'[s][l] = backlog[s][l + 1]
            BY <2>2, <2>9
          <6>2. l + 1 = k + 1
            BY <5>1, <5>2, <5>3, <6>1
          <6>3. QED
            BY <5>1, <6>1, <6>2
        <5>4. QED
          BY <5>1, <5>2, <5>3
      <4>3. \A k \in revents'[s] : fds'[s][k] # None /\ toServer'[fds'[s][k]] # <<>>
        BY <1>1, <2>8, <2>9
      <4>4. QED
        BY <1>1, <3>3, <4>1, <4>2, <4>3 DEF Seats
    <3>4. QED
      BY <3>2, <3>3
  <2>15. QED
    BY <2>9, <2>10, <2>13, <2>14
<1>5. QED
  BY <1>3, <1>4

LEMMA PollStep == ASSUME IInv, NEW s \in Server, Poll(s) PROVE IInv' /\ Holding
<1> DEFINE ready == {k \in Slot : fds[s][k] # None /\ toServer[fds[s][k]] # <<>>}
<1>1. /\ at[s] = "poll" /\ revents' = [revents EXCEPT ![s] = ready]
      /\ at' = [at EXCEPT ![s] = IF ready = {} THEN "poll" ELSE "serve"]
      /\ UNCHANGED <<board, owner, conn, index, tries, locked, last, bulletinbuf, toServer, toClient, cat, pos>>
  BY DEF Poll, Goto, file, memory, client
<1>2. conn[s] = None
  BY <1>1 DEF IInv, Place, Serving
<1>3. TypeOK'
  <2>1. revents' \in [Server -> SUBSET Slot]
    BY <1>1 DEF IInv, TypeOK
  <2>2. QED
    BY <1>1, <2>1, PollSeats DEF IInv, TypeOK
<1>4. ASSUME NEW u \in Server PROVE Place(u)'
  BY <1>1, <1>2 DEF IInv, TypeOK, Place, Serving
<1>5. ASSUME NEW d \in Client PROVE Dialogue(d)' /\ \A r \in Record : Holds(d, r)' <=> Holds(d, r)
  <2>1. Served(d)' <=> Served(d)
    BY <1>1 DEF Served
  <2>2. Served(d) => at'[Home[d]] = at[Home[d]] /\ index'[Home[d]] = index[Home[d]]
    BY <1>1, <1>2, BulletinAssumption DEF Served, IInv, TypeOK
  <2>3. Dialogue(d)
    BY DEF IInv
  <2>4. Dialogue(d)'
    BY <1>1, <2>1, <2>2, <2>3 DEF Dialogue, Silent, Commands, Posting, Pulling, Unread, Records
  <2>5. \A r \in Record : Holds(d, r)' <=> Holds(d, r)
    BY <1>1, <2>1, <2>2 DEF Holds, Served
  <2>6. QED
    BY <2>4, <2>5
<1>6. Grants' /\ Holding
  BY <1>1, <1>5, SameGrants DEF Holding, IInv
<1>7. QED
  BY <1>3, <1>4, <1>5, <1>6, PollSeats DEF IInv

-------------------------------------------------------------------------------
(* Steps of a client *)

\* Only what belongs to client c, and perhaps the backlog, changes.
Talk(c) == /\ UNCHANGED <<board, owner, fds, revents, locked, last, bulletinbuf, at, conn, index, tries>>
           /\ \A d \in Client : d # c => /\ cat'[d] = cat[d] /\ pos'[d] = pos[d]
                                         /\ toServer'[d] = toServer[d] /\ toClient'[d] = toClient[d]

LEMMA TalkOthers ==
    ASSUME IInv, NEW c \in Client, Talk(c), NEW d \in Client, d # c
    PROVE  Dialogue(d)' /\ \A r : Holds(d, r)' <=> Holds(d, r)
<1>1. /\ cat'[d] = cat[d] /\ pos'[d] = pos[d]
      /\ toServer'[d] = toServer[d] /\ toClient'[d] = toClient[d]
      /\ UNCHANGED <<at, conn, index>>
  BY DEF Talk
<1>2. Dialogue(d)
  BY DEF IInv
<1>3. Dialogue(d)'
  BY <1>1, <1>2 DEF Dialogue, Silent, Commands, Posting, Pulling, Unread, Records, Served
<1>4. ASSUME NEW r PROVE Holds(d, r)' <=> Holds(d, r)
  BY <1>1 DEF Holds
<1>5. QED
  BY <1>3, <1>4

\* What is left to show of such a step.
LEMMA TalkStep ==
    ASSUME IInv, NEW c \in Client, Talk(c), TypeOK', SlotsExact', \A s \in Server : Seats(s)',
           Dialogue(c)', \A r \in Record : Holds(c, r)' <=> Holds(c, r)
    PROVE  IInv' /\ Holding
<1>1. ASSUME NEW u \in Server PROVE Place(u)'
  BY DEF Talk, IInv, Place
<1>2. ASSUME NEW d \in Client PROVE Dialogue(d)' /\ \A r \in Record : Holds(d, r)' <=> Holds(d, r)
  BY TalkOthers
<1>3. Grants' /\ Holding
  BY <1>2, SameGrants DEF Holding, Talk, IInv
<1>4. QED
  BY <1>1, <1>2, <1>3 DEF IInv

\* The seats, when a client acts that the server has seen.
LEMMA TalkSeats ==
    ASSUME IInv, NEW c \in Client, Talk(c), UNCHANGED backlog,
           cat[c] # "pulling" \/ toClient[c] # <<>>, cat'[c] # "new",
           toServer[c] # <<>> => toServer'[c] # <<>>,
           cat'[c] = "gone" => toServer'[c] # <<>>
    PROVE  SlotsExact' /\ \A s \in Server : Seats(s)'
<1>1. SlotsExact'
  <2> SUFFICES ASSUME NEW s \in Server, NEW k \in Slot, fds'[s][k] # None
               PROVE  /\ \A l \in Slot \ {k} : fds'[s][l] # fds'[s][k]
                      /\ Home[fds'[s][k]] = s /\ fds'[s][k] \notin Range(backlog'[s])
                      /\ cat'[fds'[s][k]] = "gone" => toServer'[fds'[s][k]] # <<>>
    BY DEF SlotsExact
  <2>1. fds'[s][k] = fds[s][k] /\ fds[s][k] \in Client
    BY DEF Talk, IInv, TypeOK
  <2>2. QED
    BY <2>1 DEF Talk, IInv, SlotsExact
<1>2. ASSUME NEW s \in Server PROVE Seats(s)'
  <2>1. Seats(s) /\ backlog[s] \in Seq(Client) /\ fds[s] \in [Slot -> Client \cup {None}]
    BY DEF IInv, TypeOK
  <2>2. \A k \in DOMAIN backlog[s] : backlog[s][k] \in Client /\ backlog[s][k] # c
    BY <2>1, ElementOfSeq DEF Seats
  <2>3. \A k \in Slot : fds'[s][k] # None => cat'[fds'[s][k]] # "new"
    BY <2>1 DEF Talk, Seats
  <2>4. \A k \in revents'[s] : fds'[s][k] # None /\ toServer'[fds'[s][k]] # <<>>
    BY <2>1 DEF Talk, Seats, IInv, TypeOK
  <2>5. QED
    BY <2>1, <2>2, <2>3, <2>4 DEF Talk, Seats
<1>3. QED
  BY <1>1, <1>2

\* A request that carries no post changes nothing about who holds what.
LEMMA AppendRequest ==
    ASSUME NEW q \in Seq(Requests), NEW m \in Requests, m.type # "finish", NEW r
    PROVE  InMessage(Append(q, m), "finish", r) <=> InMessage(q, "finish", r)
<1>1. /\ DOMAIN q = 1..Len(q) /\ Len(q) \in Nat
      /\ DOMAIN Append(q, m) = 1..(Len(q) + 1)
      /\ \A k \in 1..Len(q) : Append(q, m)[k] = q[k]
      /\ Append(q, m)[Len(q) + 1] = m
  BY AppendProperties, LenProperties
<1>2. QED
  BY <1>1 DEF InMessage

\* A client sends a request while at most a post of its is under way.
LEMMA AskStep ==
    ASSUME IInv, NEW c \in Client, Commands(c), cat[c] \in {"new", "command"},
           NEW t \in {"pull", "post", "exit"}, Ask(c, [type |-> t]),
           NEW p \in {"pulling", "posting", "gone"}, cat' = [cat EXCEPT ![c] = p], UNCHANGED pos,
           <<p, t>> \in {<<"posting", "post">>, <<"pulling", "pull">>, <<"gone", "exit">>}
    PROVE  /\ Talk(c) /\ Dialogue(c)' /\ toServer'[c] # <<>>
           /\ backlog' \in [Server -> Seq(Client)] => TypeOK'
           /\ \A r \in Record : Holds(c, r)' <=> Holds(c, r)
<1> DEFINE m == [type |-> t]
<1>1. /\ toServer[c] \in Seq(Requests) /\ m \in Requests /\ m.type = t
      /\ toServer'[c] = Append(toServer[c], m) /\ cat'[c] = p
  BY DEF IInv, TypeOK, Requests, Ask
<1>2. PICK n \in Nat : n = Len(toServer[c]) /\ n \in {0, 1}
  BY <1>1, Empty DEF Commands
<1>3. /\ toServer'[c] \in Seq(Requests) /\ Len(toServer'[c]) = n + 1
      /\ toServer'[c][n + 1] = m /\ (n = 1 => toServer'[c][1] = toServer[c][1])
  BY <1>1, <1>2, AppendProperties
<1>4. n = 0 <=> toServer[c] = <<>>
  BY <1>1, <1>2, Empty
<1>5. toServer'[c] # <<>>
  BY <1>2, <1>3, Empty
<1>6. Talk(c)
  BY DEF Talk, Ask, IInv, TypeOK, file, local, memory
<1>7. backlog' \in [Server -> Seq(Client)] => TypeOK'
  <2>a. n \in {0, 1}
    BY <1>2
  <2>b. n + 1 <= 2
    BY <2>a
  <2>1. Len(toServer'[c]) <= 2
    BY <1>3, <2>b
  <2>2. toServer' \in [Client -> Seq(Requests)] /\ \A d \in Client : Len(toServer'[d]) <= 2
    BY <1>3, <2>1 DEF Ask, IInv, TypeOK
  <2>3. cat' \in [Client -> {"new", "pulling", "command", "posting", "typing", "gone"}]
    BY DEF IInv, TypeOK
  <2>4. QED
    BY <2>2, <2>3 DEF Ask, IInv, TypeOK, file, local, memory
<1>8. Unread(c, t)'
  <2>1. toClient'[c] = <<>> /\ (Served(c)' => at'[Home[c]] = "finish" /\ n = 0)
    BY <1>4 DEF Commands, Ask, Served, local
  <2>2. n = 1 => toServer'[c][1].type = "finish"
    BY <1>3, <1>4 DEF Commands
  <2>3. CASE n = 0
    <3>1. Len(toServer'[c]) = 1
      BY <1>3, <2>3
    <3>2. toServer'[c][Len(toServer'[c])].type = t
      BY <1>1, <1>3, <2>3, <3>1
    <3>3. Len(toServer'[c]) \in {1, 2} /\ Len(toServer'[c]) # 2
      BY <3>1
    <3>4. QED
      BY <2>1, <3>1, <3>2, <3>3 DEF Unread
  <2>4. CASE n = 1
    <3>1. Len(toServer'[c]) = 2
      BY <1>3, <2>4
    <3>2. toServer'[c][Len(toServer'[c])].type = t
      BY <1>1, <1>3, <2>4, <3>1
    <3>3. Len(toServer'[c]) \in {1, 2} /\ ~Served(c)'
      BY <2>1, <2>4, <3>1
    <3>4. QED
      BY <2>1, <2>2, <2>4, <3>2, <3>3 DEF Unread
  <2>5. QED
    BY <1>2, <2>3, <2>4
<1>9. Dialogue(c)'
  BY <1>1, <1>8 DEF Dialogue, Posting, Pulling
<1>10. ASSUME NEW r \in Record PROVE Holds(c, r)' <=> Holds(c, r)
  <2>1. InMessage(toServer'[c], "finish", r) <=> InMessage(toServer[c], "finish", r)
    BY <1>1, AppendRequest
  <2>2. cat[c] # "typing" /\ cat'[c] # "typing"
    BY <1>1
  <2>3. QED
    BY <2>1, <2>2 DEF Holds, Ask, local
<1>11. QED
  BY <1>5, <1>6, <1>7, <1>9, <1>10

LEMMA CommandStep == ASSUME IInv, NEW c \in Client, Command(c) PROVE IInv' /\ Holding
<1>1. cat[c] = "command" /\ Commands(c) /\ UNCHANGED <<backlog, pos>>
  BY DEF Command, IInv, Dialogue
<1>2. backlog' \in [Server -> Seq(Client)]
  BY <1>1 DEF IInv, TypeOK
<1>3. PICK t \in {"pull", "post", "exit"}, p \in {"pulling", "posting", "gone"} :
         /\ Ask(c, [type |-> t]) /\ cat' = [cat EXCEPT ![c] = p]
         /\ <<p, t>> \in {<<"posting", "post">>, <<"pulling", "pull">>, <<"gone", "exit">>}
  BY DEF Command
<1>4. /\ Talk(c) /\ Dialogue(c)' /\ toServer'[c] # <<>> /\ TypeOK'
      /\ \A r \in Record : Holds(c, r)' <=> Holds(c, r)
  BY <1>1, <1>2, <1>3, AskStep
<1>5. cat'[c] # "new"
  BY <1>3 DEF IInv, TypeOK
<1>6. SlotsExact' /\ \A s \in Server : Seats(s)'
  BY <1>1, <1>4, <1>5, TalkSeats
<1>7. QED
  BY <1>4, <1>6, TalkStep

LEMMA ConnectStep == ASSUME IInv, NEW c \in Client, Connect(c) PROVE IInv' /\ Holding
<1>1. /\ cat[c] = "new" /\ Silent(c) /\ UNCHANGED pos
      /\ Ask(c, [type |-> "pull"]) /\ cat' = [cat EXCEPT ![c] = "pulling"]
      /\ backlog' = [backlog EXCEPT ![Home[c]] = Append(@, c)]
  BY DEF Connect, init_client, IInv, Dialogue
<1>2. Commands(c)
  BY <1>1 DEF Silent, Commands
<1>3. PICK h \in Server : h = Home[c]
  BY BulletinAssumption
<1>4. /\ backlog[h] \in Seq(Client) /\ backlog'[h] = Append(backlog[h], c)
      /\ \A u \in Server \ {h} : backlog'[u] = backlog[u]
  BY <1>1, <1>3 DEF IInv, TypeOK
<1>5. /\ Append(backlog[h], c) \in Seq(Client) /\ Len(backlog[h]) \in Nat
      /\ DOMAIN backlog[h] = 1..Len(backlog[h])
      /\ DOMAIN backlog'[h] = 1..(Len(backlog[h]) + 1)
      /\ \A k \in 1..Len(backlog[h]) : backlog'[h][k] = backlog[h][k]
      /\ backlog'[h][Len(backlog[h]) + 1] = c
  BY <1>4, AppendProperties, LenProperties
<1>6. backlog' \in [Server -> Seq(Client)]
  BY <1>1, <1>3, <1>5 DEF IInv, TypeOK
<1>7. /\ Talk(c) /\ Dialogue(c)' /\ toServer'[c] # <<>> /\ TypeOK'
      /\ \A r \in Record : Holds(c, r)' <=> Holds(c, r)
  BY <1>1, <1>2, <1>6, AskStep
<1>8. cat'[c] = "pulling" /\ toClient' = toClient
  BY <1>1 DEF IInv, TypeOK, Ask
<1>9. ASSUME NEW u \in Server
      PROVE  /\ \A k \in Slot : fds[u][k] # None => fds[u][k] \in Client /\ fds[u][k] # c
             /\ \A k \in DOMAIN backlog[u] : backlog[u][k] \in Client /\ backlog[u][k] # c
             /\ conn[u] # c
  <2>1. Seats(u) /\ backlog[u] \in Seq(Client) /\ fds[u] \in [Slot -> Client \cup {None}]
    BY DEF IInv, TypeOK
  <2>2. conn[u] # c
    BY <1>1, BulletinAssumption DEF Silent, Served, IInv, Place
  <2>3. QED
    BY <1>1, <2>1, <2>2, ElementOfSeq DEF Seats
<1>10. SlotsExact'
  <2> SUFFICES ASSUME NEW u \in Server, NEW k \in Slot, fds'[u][k] # None
               PROVE  /\ \A l \in Slot \ {k} : fds'[u][l] # fds'[u][k]
                      /\ Home[fds'[u][k]] = u /\ fds'[u][k] \notin Range(backlog'[u])
                      /\ cat'[fds'[u][k]] = "gone" => toServer'[fds'[u][k]] # <<>>
    BY DEF SlotsExact
  <2>1. fds' = fds /\ fds[u][k] \in Client /\ fds[u][k] # c
    BY <1>7, <1>9 DEF Talk
  <2>2. /\ \A l \in Slot \ {k} : fds[u][l] # fds[u][k]
        /\ Home[fds[u][k]] = u /\ fds[u][k] \notin Range(backlog[u])
        /\ cat[fds[u][k]] = "gone" => toServer[fds[u][k]] # <<>>
    BY <2>1 DEF IInv, SlotsExact
  <2>3. fds[u][k] \notin Range(backlog'[u])
    <3>1. CASE u # h
      BY <1>4, <2>2, <3>1
    <3>2. CASE u = h
      <4>1. \A l \in DOMAIN backlog'[h] : l \in DOMAIN backlog[h] \/ l = Len(backlog[h]) + 1
        BY <1>5
      <4>2. \A l \in DOMAIN backlog'[h] : backlog'[h][l] # fds[u][k]
        BY <1>5, <2>1, <2>2, <3>2, <4>1 DEF Range
      <4>3. QED
        BY <3>2, <4>2 DEF Range
    <3>3. QED
      BY <3>1, <3>2
  <2>4. QED
    BY <1>7, <2>1, <2>2, <2>3 DEF Talk
<1>11. ASSUME NEW u \in Server PROVE Seats(u)'
  <2>1. Seats(u) /\ revents[u] \in SUBSET Slot
    BY DEF IInv, TypeOK
  <2>2. \A k \in Slot : fds'[u][k] # None => cat'[fds'[u][k]] # "new"
    BY <1>7, <1>9, <2>1 DEF Seats, Talk
  <2>3. \A k \in revents'[u] : fds'[u][k] # None /\ toServer'[fds'[u][k]] # <<>>
    BY <1>7, <1>9, <2>1 DEF Seats, Talk
  <2>4. ASSUME NEW k \in DOMAIN backlog[u]
        PROVE  /\ Home[backlog[u][k]] = u /\ cat'[backlog[u][k]] = "pulling"
               /\ toClient'[backlog[u][k]] = <<>> /\ conn'[u] # backlog[u][k]
               /\ \A l \in DOMAIN backlog[u] : backlog[u][l] = backlog[u][k] => l = k
    BY <1>7, <1>8, <1>9, <2>1 DEF Seats, Talk
  <2>5. CASE u # h
    BY <1>4, <2>2, <2>3, <2>4, <2>5 DEF Seats
  <2>6. CASE u = h
    <3>1. Home[c] = u /\ cat'[c] = "pulling" /\ toClient'[c] = <<>> /\ conn'[u] # c
      BY <1>1, <1>3, <1>7, <1>8, <1>9, <2>6 DEF Silent, Talk
    <3>2. ASSUME NEW k \in DOMAIN backlog'[u]
          PROVE  /\ Home[backlog'[u][k]] = u /\ cat'[backlog'[u][k]] = "pulling"
                 /\ toClient'[backlog'[u][k]] = <<>> /\ conn'[u] # backlog'[u][k]
                 /\ \A l \in DOMAIN backlog'[u] : backlog'[u][l] = backlog'[u][k] => l = k
      <4>1. CASE k \in DOMAIN backlog[u]
        BY <1>5, <1>9, <2>4, <2>6, <4>1
      <4>2. CASE k = Len(backlog[u]) + 1
        BY <1>5, <1>9, <2>6, <3>1, <4>2
      <4>3. QED
        BY <1>5, <2>6, <4>1, <4>2
    <3>3. QED
      BY <2>2, <2>3, <3>2 DEF Seats
  <2>7. QED
    BY <2>5, <2>6
<1>12. QED
  BY <1>7, <1>10, <1>11, TalkStep

LEMMA SubmitStep == ASSUME IInv, NEW c \in Client, Submit(c) PROVE IInv' /\ Holding
<1> DEFINE m == [type |-> "finish", pos |-> pos[c], rd |-> Text[c]]
<1>1. /\ cat[c] = "typing" /\ Silent(c) /\ Ask(c, m) /\ UNCHANGED backlog
      /\ cat' = [cat EXCEPT ![c] = "command"] /\ pos' = [pos EXCEPT ![c] = 0]
  BY DEF Submit, IInv, Dialogue
<1>2. m \in Requests
  <2>1. Text[c] \in Range(Text) /\ pos[c] \in Record
    BY BulletinAssumption DEF Range, IInv, TypeOK
  <2>2. QED
    BY <2>1 DEF Requests
<1>3. /\ toServer[c] = <<>> /\ toServer[c] \in Seq(Requests)
      /\ toServer'[c] = Append(toServer[c], m)
      /\ cat'[c] = "command"
  BY <1>1 DEF IInv, TypeOK, Ask, Silent
<1>4. toServer'[c] \in Seq(Requests) /\ Len(toServer'[c]) = 1 /\ toServer'[c][1] = m
  BY <1>2, <1>3
<1>5. Talk(c)
  BY <1>1 DEF Talk, Ask, IInv, TypeOK, file, local, memory
<1>6. TypeOK'
  <2>1. toServer' \in [Client -> Seq(Requests)] /\ \A d \in Client : Len(toServer'[d]) <= 2
    BY <1>1, <1>4 DEF Ask, IInv, TypeOK
  <2>2. pos' \in [Client -> Record]
    BY <1>1, BulletinAssumption DEF IInv, TypeOK, Record
  <2>3. QED
    BY <1>1, <2>1, <2>2 DEF Ask, IInv, TypeOK, file, local, memory
<1>7. toServer'[c] # <<>>
  BY <1>4, NotEmpty
<1>8. SlotsExact' /\ \A s \in Server : Seats(s)'
  BY <1>1, <1>3, <1>5, <1>7, TalkSeats
<1>9. Commands(c)'
  <2>1. toClient'[c] = <<>> /\ ~Served(c)'
    BY <1>1 DEF Ask, Silent, Served, local
  <2>2. toServer'[c][1].type = "finish" /\ Len(toServer'[c]) <= 1
    BY <1>4
  <2>3. QED
    BY <2>1, <2>2 DEF Commands
<1>10. Dialogue(c)'
  BY <1>3, <1>9 DEF Dialogue
<1>11. ASSUME NEW r \in Record PROVE Holds(c, r)' <=> Holds(c, r)
  <2>1. DOMAIN toServer'[c] = {1}
    BY <1>4
  <2>2. InMessage(toServer'[c], "finish", r) <=> r = pos[c]
    BY <1>4, <2>1 DEF InMessage
  <2>3. UNCHANGED <<toClient, at, conn, index>> /\ ~InMessage(toServer[c], "finish", r)
    BY <1>1, <1>3 DEF Ask, local, InMessage
  <2>4. ~InMessage(toClient[c], "available", r) /\ conn[Home[c]] # c
    BY <1>1 DEF Silent, InMessage, Served
  <2>5. QED
    BY <1>1, <1>3, <2>2, <2>3, <2>4 DEF Holds
<1>12. QED
  BY <1>5, <1>6, <1>8, <1>10, <1>11, TalkStep

LEMMA ReadReplyStep == ASSUME IInv, NEW c \in Client, ReadReply(c) PROVE IInv' /\ Holding
<1>1. /\ cat[c] = "posting" /\ toClient[c] # <<>>
      /\ toClient' = [toClient EXCEPT ![c] = Tail(@)]
      /\ UNCHANGED <<board, owner, at, conn, index, tries, backlog, fds, revents, locked, last, bulletinbuf, toServer>>
  BY DEF ReadReply, file, local, polled, memory
<1>2. /\ toServer[c] = <<>> /\ ~Served(c) /\ Len(toClient[c]) = 1
      /\ toClient[c][1].type \in {"available", "full"}
  BY <1>1 DEF IInv, Dialogue, Posting, Unread
<1>3. toClient[c] \in Seq(Answers) /\ toClient[c][1] \in Answers /\ Head(toClient[c]) = toClient[c][1]
  BY <1>1, <1>2 DEF IInv, TypeOK
<1>4. toClient'[c] = <<>>
  BY <1>1, <1>2, <1>3, TailOfOne DEF IInv, TypeOK
<1>5. toClient[c][1].type = "available" => toClient[c][1].pos \in Record
  BY <1>3 DEF Answers
<1>6. /\ Talk(c)
      /\ toClient[c][1].type = "full" => cat'[c] = "command" /\ pos' = pos
      /\ toClient[c][1].type = "available" => cat'[c] = "typing" /\ pos'[c] = toClient[c][1].pos
      /\ cat' \in [Client -> {"new", "pulling", "command", "posting", "typing", "gone"}]
      /\ pos' \in [Client -> Record]
  <2>1. CASE toClient[c][1].type = "full"
    BY <1>1, <1>3, <2>1 DEF ReadReply, Talk, IInv, TypeOK
  <2>2. CASE toClient[c][1].type = "available"
    <3>1. cat' = [cat EXCEPT ![c] = "typing"] /\ pos' = [pos EXCEPT ![c] = toClient[c][1].pos]
      BY <1>3, <2>2 DEF ReadReply
    <3>2. QED
      BY <1>1, <1>5, <2>2, <3>1 DEF Talk, IInv, TypeOK
  <2>3. QED
    BY <1>2, <2>1, <2>2
<1>7. TypeOK'
  <2>1. <<>> \in Seq(Answers) /\ Len(<<>>) <= RECORD_NUM + 1
    BY BulletinAssumption
  <2>2. toClient' \in [Client -> Seq(Answers)] /\ \A d \in Client : Len(toClient'[d]) <= RECORD_NUM + 1
    BY <1>1, <1>4, <2>1 DEF IInv, TypeOK
  <2>3. QED
    BY <1>1, <1>6, <2>2 DEF IInv, TypeOK
<1>8. cat'[c] \in {"command", "typing"}
  BY <1>2, <1>6
<1>9. SlotsExact' /\ \A s \in Server : Seats(s)'
  BY <1>1, <1>6, <1>8, TalkSeats
<1>10. Dialogue(c)'
  <2>1. Silent(c)'
    BY <1>1, <1>2, <1>4 DEF Silent, Served
  <2>2. Commands(c)'
    BY <2>1 DEF Silent, Commands
  <2>3. QED
    BY <1>8, <2>1, <2>2 DEF Dialogue
<1>11. ASSUME NEW r \in Record PROVE Holds(c, r)' <=> Holds(c, r)
  <2>1. DOMAIN toClient[c] = {1}
    BY <1>2, <1>3
  <2>2. InMessage(toClient[c], "available", r) <=> toClient[c][1].type = "available" /\ toClient[c][1].pos = r
    BY <2>1 DEF InMessage
  <2>3. ~InMessage(toServer[c], "finish", r) /\ ~InMessage(toClient'[c], "available", r)
    BY <1>2, <1>4 DEF InMessage
  <2>4. QED
    BY <1>1, <1>2, <1>6, <2>2, <2>3 DEF Holds, Served
<1>12. QED
  BY <1>6, <1>7, <1>9, <1>10, <1>11, TalkStep

LEMMA ReadBoardStep == ASSUME IInv, NEW c \in Client, ReadBoard(c) PROVE IInv' /\ Holding
<1>1. /\ cat[c] = "pulling" /\ toClient[c] # <<>>
      /\ toClient' = [toClient EXCEPT ![c] = Tail(@)]
      /\ cat' = [cat EXCEPT ![c] = IF Head(toClient[c]).type = "end" THEN "command" ELSE @]
      /\ UNCHANGED <<board, owner, at, conn, index, tries, backlog, fds, revents, locked, last, bulletinbuf,
                     toServer, pos>>
  BY DEF ReadBoard, file, local, polled, memory
<1>2. PICK n \in Nat : /\ toClient[c] \in Seq(Answers) /\ n = Len(toClient[c]) /\ n # 0
                       /\ DOMAIN toClient[c] = 1..n
                       /\ Head(toClient[c]) = toClient[c][1] /\ n <= RECORD_NUM + 1
  BY <1>1, Empty, LenProperties DEF IInv, TypeOK
<1>3. /\ toClient'[c] = Tail(toClient[c]) /\ toClient'[c] \in Seq(Answers)
      /\ Len(toClient'[c]) = n - 1 /\ DOMAIN toClient'[c] = 1..(n - 1)
      /\ \A k \in 1..(n - 1) : toClient'[c][k] = toClient[c][k + 1]
  <2>1. /\ Tail(toClient[c]) \in Seq(Answers) /\ Len(Tail(toClient[c])) = n - 1
        /\ \A k \in 1..Len(Tail(toClient[c])) : Tail(toClient[c])[k] = toClient[c][k + 1]
    BY <1>1, <1>2, HeadTailProperties
  <2>2. toClient'[c] = Tail(toClient[c])
    BY <1>1 DEF IInv, TypeOK
  <2>3. QED
    BY <2>1, <2>2, LenProperties
<1>4. \/ /\ toServer[c] = <<>>
         /\ Served(c) /\ at[Home[c]] \in {"pull", "pulled"}
         /\ n <= index[Home[c]] /\ Records(toClient[c], n)
      \/ /\ toServer[c] = <<>> /\ ~Served(c)
         /\ toClient[c][n].type = "end" /\ Records(toClient[c], n - 1)
  BY <1>1, <1>2 DEF IInv, Dialogue, Pulling, Unread
<1>5. Talk(c)
  BY <1>1 DEF Talk, IInv, TypeOK
<1>6. TypeOK'
  <2>1. RECORD_NUM \in Nat /\ n - 1 <= RECORD_NUM + 1
    BY <1>2, BulletinAssumption
  <2>2. toClient' \in [Client -> Seq(Answers)] /\ \A d \in Client : Len(toClient'[d]) <= RECORD_NUM + 1
    BY <1>1, <1>3, <2>1 DEF IInv, TypeOK
  <2>3. cat' \in [Client -> {"new", "pulling", "command", "posting", "typing", "gone"}]
    BY <1>1 DEF IInv, TypeOK
  <2>4. QED
    BY <1>1, <2>2, <2>3 DEF IInv, TypeOK
<1>7. cat'[c] = IF toClient[c][1].type = "end" THEN "command" ELSE "pulling"
  BY <1>1, <1>2 DEF IInv, TypeOK
<1>8. SlotsExact' /\ \A s \in Server : Seats(s)'
  BY <1>1, <1>5, <1>7, TalkSeats
<1>9. Dialogue(c)'
  <2>1. CASE Served(c)
    <3>1. /\ at[Home[c]] \in {"pull", "pulled"} /\ n <= index[Home[c]]
          /\ toServer[c] = <<>> /\ Records(toClient[c], n)
      BY <1>4, <2>1
    <3>2. cat'[c] = "pulling"
      BY <1>2, <1>7, <3>1 DEF Records
    <3>3. Records(toClient'[c], n - 1)
      BY <1>2, <1>3, <3>1 DEF Records
    <3>4. n - 1 <= index[Home[c]]
      <4>1. index[Home[c]] \in Int
        BY BulletinAssumption DEF IInv, TypeOK
      <4>2. QED
        BY <1>2, <3>1, <4>1
    <3>5. Pulling(c)'
      BY <1>1, <1>3, <2>1, <3>1, <3>3, <3>4 DEF Pulling, Served
    <3>6. QED
      BY <3>2, <3>5 DEF Dialogue
  <2>2. CASE ~Served(c) /\ n = 1
    <3>1. cat'[c] = "command" /\ toServer'[c] = <<>> /\ ~Served(c)'
      BY <1>1, <1>4, <1>7, <2>2 DEF Served
    <3>2. toClient'[c] = <<>>
      BY <1>2, <1>3, <2>2, TailOfOne
    <3>3. Commands(c)'
      BY <3>1, <3>2 DEF Commands
    <3>4. QED
      BY <3>1, <3>3 DEF Dialogue
  <2>3. CASE ~Served(c) /\ n # 1
    <3>1. /\ toServer'[c] = <<>> /\ ~Served(c)'
          /\ toClient[c][n].type = "end" /\ Records(toClient[c], n - 1)
      BY <1>1, <1>4, <2>3 DEF Served
    <3>a. n # 0 /\ n # 1 /\ n <= RECORD_NUM + 1
      BY <1>2, <2>3
    <3>b. 1 \in 1..(n - 1)
      BY <3>a
    <3>2. cat'[c] = "pulling"
      BY <1>7, <3>1, <3>b DEF Records
    <3>3. n - 1 \in 1..(RECORD_NUM + 1) /\ n - 1 + 1 = n /\ n - 1 - 1 = n - 2
      BY <3>a, BulletinAssumption
    <3>4. toClient'[c][n - 1].type = "end"
      BY <1>2, <1>3, <2>3, <3>1, <3>3
    <3>5. Records(toClient'[c], n - 2)
      BY <1>2, <1>3, <2>3, <3>1 DEF Records
    <3>6. Pulling(c)'
      BY <1>3, <3>1, <3>3, <3>4, <3>5 DEF Pulling
    <3>7. QED
      BY <3>2, <3>6 DEF Dialogue
  <2>4. QED
    BY <2>1, <2>2, <2>3
<1>10. ASSUME NEW r \in Record PROVE Holds(c, r)' <=> Holds(c, r)
  <2>1. \A k \in 1..n : toClient[c][k].type # "available"
    BY <1>2, <1>4 DEF Records
  <2>2. \A k \in 1..(n - 1) : toClient'[c][k].type # "available"
    BY <1>2, <1>3, <2>1
  <2>3. ~InMessage(toClient[c], "available", r) /\ ~InMessage(toClient'[c], "available", r)
    BY <1>2, <1>3, <2>1, <2>2 DEF InMessage
  <2>4. QED
    BY <1>1, <1>7, <2>3 DEF Holds
<1>11. QED
  BY <1>5, <1>6, <1>8, <1>9, <1>10, TalkStep

-------------------------------------------------------------------------------
(* The invariant *)

LEMMA InitIInv == ASSUME Init PROVE IInv
<1>1. TypeOK
  <2>1. 0 \in Record /\ RECORD_NUM - 1 \in Record /\ 0 \in 0..RECORD_NUM
    BY BulletinAssumption DEF Record
  <2>2. Blank \in [Record -> Range(Text) \cup {None}] /\ Up \subseteq Server
    BY BulletinAssumption DEF Blank
  <2>3. \A c \in Client : /\ toServer[c] = <<>> /\ toClient[c] = <<>>
                          /\ Len(toServer[c]) <= 2 /\ Len(toClient[c]) <= RECORD_NUM + 1
    BY BulletinAssumption DEF Init
  <2>4. /\ backlog \in [Server -> Seq(Client)] /\ fds \in [Server -> [Slot -> Client \cup {None}]]
        /\ toServer \in [Client -> Seq(Requests)] /\ toClient \in [Client -> Seq(Answers)]
        /\ owner \in [Record -> Server \cup {None}] /\ revents \in [Server -> SUBSET Slot]
        /\ locked \in [Server -> SUBSET Record]
    BY DEF Init
  <2>5. QED
    BY <2>1, <2>2, <2>3, <2>4 DEF Init, TypeOK
<1>2. ASSUME NEW s \in Server PROVE Place(s) /\ Seats(s)
  <2>1. Place(s)
    BY BulletinAssumption DEF Init, Place, Serving, Record
  <2>2. Seats(s)
    BY DEF Init, Seats
  <2>3. QED
    BY <2>1, <2>2
<1>3. SlotsExact
  BY DEF Init, SlotsExact
<1>4. ASSUME NEW c \in Client PROVE Silent(c) /\ Dialogue(c)
  BY BulletinAssumption DEF Init, Dialogue, Silent, Served
<1>5. ASSUME NEW c \in Client, NEW r \in Record PROVE ~Holds(c, r)
  BY <1>4 DEF Init, Holds, Silent, Served, InMessage
<1>6. Grants
  BY <1>5 DEF Init, Grants
<1>7. QED
  BY <1>1, <1>2, <1>3, <1>4, <1>6 DEF IInv

LEMMA StutterIInv == ASSUME IInv, UNCHANGED vars PROVE IInv'
<1>1. UNCHANGED <<board, owner, backlog, fds, revents, locked, last, bulletinbuf, at, conn, index, tries,
                  toServer, toClient, cat, pos>>
  BY DEF vars, file, local, polled, memory, client
<1>2. TypeOK' /\ SlotsExact' /\ \A s \in Server : Place(s)' /\ Seats(s)'
  BY <1>1 DEF IInv, TypeOK, SlotsExact, Place, Seats
<1>3. ASSUME NEW c \in Client PROVE Dialogue(c)' /\ \A r \in Record : Holds(c, r)' <=> Holds(c, r)
  <2>1. Dialogue(c)
    BY DEF IInv
  <2>2. Dialogue(c)'
    BY <1>1, <2>1 DEF Dialogue, Silent, Commands, Posting, Pulling, Unread, Served
  <2>3. QED
    BY <1>1, <2>2 DEF Holds
<1>4. Grants'
  BY <1>1, <1>3, SameGrants DEF IInv
<1>5. QED
  BY <1>2, <1>3, <1>4 DEF IInv

LEMMA NextIInv == ASSUME IInv, [Next]_vars PROVE IInv'
<1>1. ASSUME NEW s \in Server, server(s) PROVE IInv'
  BY <1>1, StartReadStep, StartWriteStep, PollStep, PostStep, ProbeStep, FoundStep, GrantStep, RefuseStep,
     PullStep, PullTestStep, PullSendStep, PullEndStep, FinishStep, FinishUnlockStep, CloseClientStep
     DEF server, find_available
<1>2. ASSUME NEW c \in Client, Connect(c) \/ Command(c) \/ ReadBoard(c) \/ ReadReply(c) \/ Submit(c) PROVE IInv'
  BY <1>2, ConnectStep, CommandStep, ReadBoardStep, ReadReplyStep, SubmitStep
<1>3. CASE Idle \/ UNCHANGED vars
  BY <1>3, StutterIInv DEF Idle
<1>4. QED
  BY <1>1, <1>2, <1>3 DEF Next

\* The dialogue of every client with its server goes on as IInv says, and this
\* is inductive: whatever server.c and client.c do next keeps it.
THEOREM DialogueInvariant == Spec => []IInv
BY InitIInv, NextIInv, PTL DEF Spec

\* Every variable of server.c and client.c keeps its type: indexes stay within
\* the board, at most a post and one request are under way to a server and at
\* most one board to a client.
THEOREM TypeCorrect == Spec => []TypeOK
<1>1. IInv => TypeOK
  BY DEF IInv
<1>2. QED
  BY <1>1, DialogueInvariant, PTL

\* A slot of the poll set of main() belongs to one connected client, however
\* clients come and go and whatever the order of accepts and closes.
THEOREM SlotsCorrect == Spec => []SlotsExact
<1>1. IInv => SlotsExact
  BY DEF IInv
<1>2. QED
  BY <1>1, DialogueInvariant, PTL

\* A client that waits for the answer to "!post" or "!pull" never reads an
\* answer to something else.
THEOREM InStepCorrect == Spec => []InStep
<1>1. ASSUME IInv, NEW c \in Client
      PROVE  /\ cat[c] = "posting" => /\ Len(toClient[c]) <= 1
                                      /\ \A k \in DOMAIN toClient[c] : toClient[c][k].type \in {"available", "full"}
             /\ cat[c] = "pulling" => \A k \in DOMAIN toClient[c] : toClient[c][k].type \in {"record", "end"}
             /\ cat[c] \notin {"posting", "pulling"} => toClient[c] = <<>>
  <2>1. Dialogue(c) /\ toClient[c] \in Seq(Answers)
    BY <1>1 DEF IInv, TypeOK
  <2>2. cat[c] \in {"new", "pulling", "command", "posting", "typing", "gone"}
    BY <1>1 DEF IInv, TypeOK
  <2>3. DOMAIN toClient[c] = 1..Len(toClient[c]) /\ Len(toClient[c]) \in Nat
    BY <2>1, LenProperties
  <2>4. toClient[c] = <<>> => Len(toClient[c]) <= 1 /\ DOMAIN toClient[c] = {}
    OBVIOUS
  <2>5. CASE cat[c] = "posting"
    <3>1. CASE toClient[c] = <<>>
      BY <2>4, <2>5, <3>1
    <3>2. CASE toClient[c] # <<>>
      <4>1. Len(toClient[c]) = 1 /\ toClient[c][1].type \in {"available", "full"}
        BY <2>1, <2>5, <3>2 DEF Dialogue, Posting, Unread
      <4>2. DOMAIN toClient[c] = {1} /\ Len(toClient[c]) <= 1
        BY <2>3, <4>1
      <4>3. QED
        BY <2>5, <4>1, <4>2
    <3>3. QED
      BY <3>1, <3>2
  <2>6. CASE cat[c] = "pulling"
    BY <2>1, <2>3, <2>4, <2>6 DEF Dialogue, Pulling, Unread, Records
  <2>7. CASE cat[c] \notin {"posting", "pulling"}
    BY <2>1, <2>2, <2>7 DEF Dialogue, Silent, Commands, Unread
  <2>8. QED
    BY <2>5, <2>6, <2>7
<1>2. IInv => InStep
  BY <1>1 DEF InStep
<1>3. QED
  BY <1>2, DialogueInvariant, PTL

\* The table locked of a server says which records its clients hold, and each
\* of them is held by one of its clients only.
THEOREM GrantsCorrect == Spec => []GrantTable
<1>1. ASSUME IInv, NEW s \in Server, NEW r \in Record
      PROVE  Cardinality({c \in Client : Home[c] = s /\ Holds(c, r)}) = IF r \in locked[s] THEN 1 ELSE 0
  <2> DEFINE holders == {c \in Client : Home[c] = s /\ Holds(c, r)}
  <2>1. Grants
    BY <1>1 DEF IInv
  <2>2. CASE r \in locked[s]
    <3>1. PICK c \in Client : Home[c] = s /\ Holds(c, r)
      BY <2>1, <2>2 DEF Grants
    <3>2. holders = {c}
      BY <2>1, <3>1 DEF Grants
    <3>3. QED
      BY <2>2, <3>2, FS_Singleton
  <2>3. CASE r \notin locked[s]
    <3>1. holders = {}
      BY <2>1, <2>3 DEF Grants
    <3>2. QED
      BY <2>3, <3>1, FS_EmptySet
  <2>4. QED
    BY <2>2, <2>3
<1>2. IInv => GrantTable
  BY <1>1 DEF GrantTable
<1>3. QED
  BY <1>2, DialogueInvariant, PTL

-------------------------------------------------------------------------------
(* The locks *)

\* The tables are functions on the records and the servers; the argument needs
\* nothing of their values.
LockType == /\ owner  = [r \in Record |-> owner[r]]
            /\ locked = [s \in Server |-> locked[s]]
            /\ at     = [s \in Server |-> at[s]]
            /\ index  = [s \in Server |-> index[s]]

LockInv == LockType /\ NoLeakedLock

\* What a server's step may change is its own: the other servers' tables and
\* places stay, and a lock only passes between nobody and this server.
Mine(s) == /\ \A u \in Server \ {s} : /\ locked'[u] = locked[u]
                                      /\ at'[u] = at[u]
                                      /\ index'[u] = index[u]
           /\ \A r \in Record : owner'[r] # owner[r] => {owner[r], owner'[r]} = {None, s}

\* A step that is the server's own and leaves its own locks accounted for
\* leaves all locks accounted for.
LEMMA OwnStep ==
    ASSUME NEW s \in Server, LockInv, Mine(s),
           \A r \in Record : owner'[r] = s =>
               r \in locked'[s] \/ (at'[s] \in {"found", "pulled"} /\ index'[s] = r)
    PROVE  NoLeakedLock'
<1> SUFFICES ASSUME NEW r \in Record, NEW u \in Server, owner'[r] = u
             PROVE  r \in locked'[u] \/ (at'[u] \in {"found", "pulled"} /\ index'[u] = r)
  BY DEF NoLeakedLock
<1>1. CASE u = s
  BY <1>1
<1>2. CASE u # s
  <2>1. owner[r] = u
    BY <1>2, BulletinAssumption DEF Mine
  <2>2. QED
    BY <1>2, <2>1 DEF Mine, LockInv, NoLeakedLock
<1>3. QED
  BY <1>1, <1>2

\* Every step of a server keeps the types and accounts for the locks.
LEMMA ServerStep ==
    ASSUME NEW s \in Server, LockInv, server(s)
    PROVE  LockInv'
<1> USE DEF LockInv, LockType, file, local, polled, memory, client
<1>1. CASE StartRead(s)
  <2>1. LockType'
    BY <1>1, BulletinAssumption DEF StartRead, Goto, Record
  <2>2. Mine(s)
    BY <1>1, BulletinAssumption DEF StartRead, Goto, Mine
  <2>3. \A r \in Record : owner'[r] = s =>
          r \in locked'[s] \/ (at'[s] \in {"found", "pulled"} /\ index'[s] = r)
    BY <1>1, BulletinAssumption DEF StartRead, Goto, NoLeakedLock
  <2>4. QED
    BY <2>1, <2>2, <2>3, OwnStep
<1>2. CASE StartWrite(s)
  <2>1. LockType'
    BY <1>2, BulletinAssumption DEF StartWrite, NextRequest, Record
  <2>2. Mine(s)
    BY <1>2, BulletinAssumption DEF StartWrite, NextRequest, Mine
  <2>3. \A r \in Record : owner'[r] = s =>
          r \in locked'[s] \/ (at'[s] \in {"found", "pulled"} /\ index'[s] = r)
    BY <1>2, BulletinAssumption DEF StartWrite, NextRequest, NoLeakedLock
  <2>4. QED
    BY <2>1, <2>2, <2>3, OwnStep
<1>3. CASE Poll(s)
  <2>1. LockType'
    BY <1>3, BulletinAssumption DEF Poll, Goto, Record
  <2>2. Mine(s)
    BY <1>3, BulletinAssumption DEF Poll, Goto, Mine
  <2>3. \A r \in Record : owner'[r] = s =>
          r \in locked'[s] \/ (at'[s] \in {"found", "pulled"} /\ index'[s] = r)
    BY <1>3, BulletinAssumption DEF Poll, Goto, NoLeakedLock
  <2>4. QED
    BY <2>1, <2>2, <2>3, OwnStep
<1>4. CASE Post(s)
  <2>1. LockType'
    BY <1>4, BulletinAssumption DEF Post, Receive, Request, Goto, Record
  <2>2. Mine(s)
    BY <1>4, BulletinAssumption DEF Post, Receive, Request, Goto, Mine
  <2>3. \A r \in Record : owner'[r] = s =>
          r \in locked'[s] \/ (at'[s] \in {"found", "pulled"} /\ index'[s] = r)
    BY <1>4, BulletinAssumption DEF Post, Receive, Request, Goto, NoLeakedLock
  <2>4. QED
    BY <2>1, <2>2, <2>3, OwnStep
<1>5. CASE Probe(s)
  <2>1. LockType'
    BY <1>5, BulletinAssumption DEF Probe, Goto, Advance, write_lock, CanLock, Record
  <2>2. Mine(s)
    BY <1>5, BulletinAssumption DEF Probe, Goto, Advance, write_lock, CanLock, Mine
  <2>3. \A r \in Record : owner'[r] = s =>
          r \in locked'[s] \/ (at'[s] \in {"found", "pulled"} /\ index'[s] = r)
    BY <1>5, BulletinAssumption DEF Probe, Goto, Advance, write_lock, CanLock, NoLeakedLock
  <2>4. QED
    BY <2>1, <2>2, <2>3, OwnStep
<1>6. CASE Found(s)
  <2>1. LockType'
    BY <1>6, BulletinAssumption DEF Found, Goto, unlock, Record
  <2>2. Mine(s)
    BY <1>6, BulletinAssumption DEF Found, Goto, unlock, Mine
  <2>3. \A r \in Record : owner'[r] = s =>
          r \in locked'[s] \/ (at'[s] \in {"found", "pulled"} /\ index'[s] = r)
    BY <1>6, BulletinAssumption DEF Found, Goto, unlock, NoLeakedLock
  <2>4. QED
    BY <2>1, <2>2, <2>3, OwnStep
<1>7. CASE Grant(s)
  <2>1. LockType'
    BY <1>7, BulletinAssumption DEF Grant, NextRequest, write_lock, CanLock, Record
  <2>2. Mine(s)
    BY <1>7, BulletinAssumption DEF Grant, NextRequest, write_lock, CanLock, Mine
  <2>3. \A r \in Record : owner'[r] = s =>
          r \in locked'[s] \/ (at'[s] \in {"found", "pulled"} /\ index'[s] = r)
    BY <1>7, BulletinAssumption DEF Grant, NextRequest, write_lock, CanLock, NoLeakedLock
  <2>4. QED
    BY <2>1, <2>2, <2>3, OwnStep
<1>8. CASE Refuse(s)
  <2>1. LockType'
    BY <1>8, BulletinAssumption DEF Refuse, NextRequest, Record
  <2>2. Mine(s)
    BY <1>8, BulletinAssumption DEF Refuse, NextRequest, Mine
  <2>3. \A r \in Record : owner'[r] = s =>
          r \in locked'[s] \/ (at'[s] \in {"found", "pulled"} /\ index'[s] = r)
    BY <1>8, BulletinAssumption DEF Refuse, NextRequest, NoLeakedLock
  <2>4. QED
    BY <2>1, <2>2, <2>3, OwnStep
<1>9. CASE Pull(s)
  <2>1. LockType'
    BY <1>9, BulletinAssumption DEF Pull, Receive, Request, Goto, Record
  <2>2. Mine(s)
    BY <1>9, BulletinAssumption DEF Pull, Receive, Request, Goto, Mine
  <2>3. \A r \in Record : owner'[r] = s =>
          r \in locked'[s] \/ (at'[s] \in {"found", "pulled"} /\ index'[s] = r)
    BY <1>9, BulletinAssumption DEF Pull, Receive, Request, Goto, NoLeakedLock
  <2>4. QED
    BY <2>1, <2>2, <2>3, OwnStep
<1>10. CASE PullTest(s)
  <2>1. LockType'
    BY <1>10, BulletinAssumption DEF PullTest, Goto, write_lock, CanLock, Record
  <2>2. Mine(s)
    BY <1>10, BulletinAssumption DEF PullTest, Goto, write_lock, CanLock, Mine
  <2>3. \A r \in Record : owner'[r] = s =>
          r \in locked'[s] \/ (at'[s] \in {"found", "pulled"} /\ index'[s] = r)
    BY <1>10, BulletinAssumption DEF PullTest, Goto, write_lock, CanLock, NoLeakedLock
  <2>4. QED
    BY <2>1, <2>2, <2>3, OwnStep
<1>11. CASE PullSend(s)
  <2>1. LockType'
    BY <1>11, BulletinAssumption DEF PullSend, Goto, unlock, Record
  <2>2. Mine(s)
    BY <1>11, BulletinAssumption DEF PullSend, Goto, unlock, Mine
  <2>3. \A r \in Record : owner'[r] = s =>
          r \in locked'[s] \/ (at'[s] \in {"found", "pulled"} /\ index'[s] = r)
    BY <1>11, BulletinAssumption DEF PullSend, Goto, unlock, NoLeakedLock
  <2>4. QED
    BY <2>1, <2>2, <2>3, OwnStep
<1>12. CASE PullEnd(s)
  <2>1. LockType'
    BY <1>12, BulletinAssumption DEF PullEnd, NextRequest, Record
  <2>2. Mine(s)
    BY <1>12, BulletinAssumption DEF PullEnd, NextRequest, Mine
  <2>3. \A r \in Record : owner'[r] = s =>
          r \in locked'[s] \/ (at'[s] \in {"found", "pulled"} /\ index'[s] = r)
    BY <1>12, BulletinAssumption DEF PullEnd, NextRequest, NoLeakedLock
  <2>4. QED
    BY <2>1, <2>2, <2>3, OwnStep
<1>13. CASE Finish(s)
  <2>1. LockType'
    BY <1>13, BulletinAssumption DEF Finish, Receive, Request, Goto, Record
  <2>2. Mine(s)
    BY <1>13, BulletinAssumption DEF Finish, Receive, Request, Goto, Mine
  <2>3. \A r \in Record : owner'[r] = s =>
          r \in locked'[s] \/ (at'[s] \in {"found", "pulled"} /\ index'[s] = r)
    BY <1>13, BulletinAssumption DEF Finish, Receive, Request, Goto, NoLeakedLock
  <2>4. QED
    BY <2>1, <2>2, <2>3, OwnStep
<1>14. CASE FinishUnlock(s)
  <2>1. LockType'
    BY <1>14, BulletinAssumption DEF FinishUnlock, NextRequest, unlock, Record
  <2>2. Mine(s)
    BY <1>14, BulletinAssumption DEF FinishUnlock, NextRequest, unlock, Mine
  <2>3. \A r \in Record : owner'[r] = s =>
          r \in locked'[s] \/ (at'[s] \in {"found", "pulled"} /\ index'[s] = r)
    BY <1>14, BulletinAssumption DEF FinishUnlock, NextRequest, unlock, NoLeakedLock
  <2>4. QED
    BY <2>1, <2>2, <2>3, OwnStep
<1>15. CASE CloseClient(s)
  <2>1. LockType'
    BY <1>15, BulletinAssumption DEF CloseClient, Receive, Request, NextRequest, Record
  <2>2. Mine(s)
    BY <1>15, BulletinAssumption DEF CloseClient, Receive, Request, NextRequest, Mine
  <2>3. \A r \in Record : owner'[r] = s =>
          r \in locked'[s] \/ (at'[s] \in {"found", "pulled"} /\ index'[s] = r)
    BY <1>15, BulletinAssumption DEF CloseClient, Receive, Request, NextRequest, NoLeakedLock
  <2>4. QED
    BY <2>1, <2>2, <2>3, OwnStep
<1>16. QED
  BY <1>1, <1>2, <1>3, <1>4, <1>5, <1>6, <1>7, <1>8, <1>9, <1>10, <1>11, <1>12, <1>13, <1>14, <1>15 DEF server, find_available

\* No record is ever left locked in the kernel by a server that neither granted
\* it nor tests it: find_available() and "!pull" give back what they probe.
THEOREM LocksAccounted == Spec => []NoLeakedLock
<1>1. Init => LockInv
  BY BulletinAssumption DEF Init, LockInv, LockType, NoLeakedLock, Record
<1>2. LockInv /\ [Next]_vars => LockInv'
  <2> SUFFICES ASSUME LockInv, [Next]_vars PROVE LockInv'
    OBVIOUS
  <2>1. ASSUME NEW s \in Server, server(s) PROVE LockInv'
    BY <2>1, ServerStep
  <2>2. ASSUME NEW c \in Client,
               Connect(c) \/ Command(c) \/ ReadBoard(c) \/ ReadReply(c) \/ Submit(c)
        PROVE  LockInv'
    <3>1. UNCHANGED <<owner, locked, at, index>>
      BY <2>2 DEF Connect, init_client, Command, ReadBoard, ReadReply, Submit, Ask, file, local, memory
    <3>2. QED
      BY <3>1 DEF LockInv, LockType, NoLeakedLock
  <2>3. CASE UNCHANGED vars
    BY <2>3 DEF vars, file, local, memory, LockInv, LockType, NoLeakedLock
  <2>4. QED
    BY <2>1, <2>2, <2>3 DEF Next, Idle
<1>3. LockInv => NoLeakedLock
  BY DEF LockInv
<1>4. QED
  BY <1>1, <1>2, <1>3, PTL DEF Spec
===============================================================================
