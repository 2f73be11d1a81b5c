----------------------------- MODULE BoardProofs -----------------------------
(***************************************************************************)
(* With one server, whatever the number of clients, slots and records:     *)
(* find_available() finds the next record that nobody edits, and server.c  *)
(* with its clients implements Board.                                      *)
(***************************************************************************)
EXTENDS BulletinProofs

\* The kernel's locks of server s are the records that it has granted and the
\* one that it is testing.
Held(s) == /\ \A r \in Record : owner[r] = s <=> \/ r \in locked[s]
                                                 \/ at[s] \in {"found", "pulled"} /\ index[s] = r
           /\ at[s] = "pulled" => index[s] \notin locked[s]

\* find_available() has passed over granted records only.
Search(s) == /\ at[s] = "find" =>
                  /\ index[s] = (last[s] + 1 + tries[s]) % RECORD_NUM
                  /\ \A r \in Record : Distance(last[s], r) < tries[s] => r \in locked[s]
             /\ at[s] \in {"found", "grant"} =>
                  \A r \in Record \ locked[s] : Distance(last[s], index[s]) <= Distance(last[s], r)

\* Nobody has written to the board since a starting server read it.
Start(s) == at[s] = "write" => bulletinbuf[s] = board

\* A client posts its own text.
Posts == \A c \in Client : \A k \in DOMAIN toServer[c] :
            toServer[c][k].type = "finish" => toServer[c][k].rd = Text[c]

OneInv == /\ IInv /\ Posts
          /\ \A s \in Server : Held(s) /\ Search(s) /\ Start(s)

-------------------------------------------------------------------------------
(* The records in a circle *)

LEMMA Small == ASSUME NEW n \in Record PROVE n % RECORD_NUM = n
BY BulletinAssumption DEF Record

LEMMA Below == ASSUME NEW n \in (-RECORD_NUM)..(-1) PROVE n % RECORD_NUM = n + RECORD_NUM
BY BulletinAssumption

LEMMA Above == ASSUME NEW n \in RECORD_NUM..(2 * RECORD_NUM - 1) PROVE n % RECORD_NUM = n - RECORD_NUM
BY BulletinAssumption

\* The t-th record behind a is at distance t.
LEMMA Around ==
    ASSUME NEW a \in Record, NEW t \in Record
    PROVE  Distance(a, (a + 1 + t) % RECORD_NUM) = t
<1>1. RECORD_NUM \in Nat \ {0} /\ a \in Int /\ t \in Int
  BY BulletinAssumption DEF Record
<1>2. CASE a + 1 + t < RECORD_NUM
  <2>1. a + 1 + t \in Record
    BY <1>1, <1>2 DEF Record
  <2>2. (a + 1 + t) % RECORD_NUM = a + 1 + t
    BY <2>1, Small
  <2>3. PICK b \in Int : b = (a + 1 + t) % RECORD_NUM /\ b - a - 1 = t
    BY <1>1, <2>1, <2>2
  <2>4. (b - a - 1) % RECORD_NUM = t
    BY <2>3, Small
  <2>5. QED
    BY <2>3, <2>4 DEF Distance
<1>3. CASE a + 1 + t >= RECORD_NUM
  <2>1. a + 1 + t \in RECORD_NUM..(2 * RECORD_NUM - 1)
    BY <1>1, <1>3 DEF Record
  <2>2. (a + 1 + t) % RECORD_NUM = a + 1 + t - RECORD_NUM
    <3>1. PICK n \in RECORD_NUM..(2 * RECORD_NUM - 1) : n = a + 1 + t
      BY <2>1
    <3>2. n % RECORD_NUM = n - RECORD_NUM
      BY Above
    <3>3. QED
      BY <1>1, <3>1, <3>2
  <2>3. PICK b \in Int : b = (a + 1 + t) % RECORD_NUM /\ b - a - 1 = t - RECORD_NUM
    BY <1>1, <2>1, <2>2
  <2>4. PICK n \in (-RECORD_NUM)..(-1) : n = t - RECORD_NUM /\ n + RECORD_NUM = t
    BY <1>1 DEF Record
  <2>5. n % RECORD_NUM = n + RECORD_NUM
    BY Below
  <2>6. (b - a - 1) % RECORD_NUM = t
    BY <2>3, <2>4, <2>5
  <2>7. QED
    BY <2>3, <2>6 DEF Distance
<1>4. QED
  BY <1>1, <1>2, <1>3

\* Only one record is at a given distance.
LEMMA Back ==
    ASSUME NEW a \in Record, NEW r \in Record
    PROVE  Distance(a, r) \in Record /\ (a + 1 + Distance(a, r)) % RECORD_NUM = r
<1>1. RECORD_NUM \in Nat \ {0} /\ a \in Int /\ r \in Int
  BY BulletinAssumption DEF Record
<1>2. CASE r - a - 1 >= 0
  <2>1. r - a - 1 \in Record
    BY <1>1, <1>2 DEF Record
  <2>2. Distance(a, r) = r - a - 1
    BY <2>1, Small DEF Distance
  <2>3. a + 1 + (r - a - 1) = r
    BY <1>1
  <2>4. QED
    BY <2>1, <2>2, <2>3, Small
<1>3. CASE r - a - 1 < 0
  <2>1. r - a - 1 \in (-RECORD_NUM)..(-1)
    BY <1>1, <1>3 DEF Record
  <2>2. Distance(a, r) = r - a - 1 + RECORD_NUM
    BY <2>1, Below DEF Distance
  <2>3. /\ r - a - 1 + RECORD_NUM \in Record
        /\ a + 1 + (r - a - 1 + RECORD_NUM) = r + RECORD_NUM
        /\ r + RECORD_NUM \in RECORD_NUM..(2 * RECORD_NUM - 1) /\ r + RECORD_NUM - RECORD_NUM = r
    BY <1>1, <1>3 DEF Record
  <2>4. (r + RECORD_NUM) % RECORD_NUM = r + RECORD_NUM - RECORD_NUM
    <3>1. PICK n \in RECORD_NUM..(2 * RECORD_NUM - 1) : n = r + RECORD_NUM
      BY <2>3
    <3>2. n % RECORD_NUM = n - RECORD_NUM
      BY Above
    <3>3. QED
      BY <1>1, <3>1, <3>2
  <2>5. QED
    BY <2>2, <2>3, <2>4
<1>4. QED
  BY <1>1, <1>2, <1>3

\* The record behind the t-th one is the next one.
LEMMA OneMore ==
    ASSUME NEW a \in Record, NEW t \in Record
    PROVE  (((a + 1 + t) % RECORD_NUM) + 1) % RECORD_NUM = (a + 1 + (t + 1)) % RECORD_NUM
<1>1. RECORD_NUM \in Nat \ {0} /\ a \in Int /\ t \in Int
  BY BulletinAssumption DEF Record
<1>2. CASE a + 1 + t < RECORD_NUM
  <2>1. a + 1 + t \in Record /\ a + 1 + t + 1 = a + 1 + (t + 1)
    BY <1>1, <1>2 DEF Record
  <2>2. QED
    BY <2>1, Small
<1>3. CASE a + 1 + t >= RECORD_NUM
  <2>1. a + 1 + t \in RECORD_NUM..(2 * RECORD_NUM - 1)
    BY <1>1, <1>3 DEF Record
  <2>2. (a + 1 + t) % RECORD_NUM = a + 1 + t - RECORD_NUM
    <3>1. PICK n \in RECORD_NUM..(2 * RECORD_NUM - 1) : n = a + 1 + t
      BY <2>1
    <3>2. n % RECORD_NUM = n - RECORD_NUM
      BY Above
    <3>3. QED
      BY <1>1, <3>1, <3>2
  <2>3. CASE a + 1 + t = 2 * RECORD_NUM - 1
    <3>1. a + 1 + t - RECORD_NUM + 1 = RECORD_NUM /\ a + 1 + (t + 1) = 2 * RECORD_NUM
      BY <1>1, <2>3
    <3>2. RECORD_NUM % RECORD_NUM = 0 /\ (2 * RECORD_NUM) % RECORD_NUM = 0
      BY <1>1
    <3>3. QED
      BY <2>2, <3>1, <3>2
  <2>4. CASE a + 1 + t # 2 * RECORD_NUM - 1
    <3>1. /\ a + 1 + t - RECORD_NUM + 1 \in Record
          /\ a + 1 + (t + 1) \in RECORD_NUM..(2 * RECORD_NUM - 1)
          /\ a + 1 + (t + 1) - RECORD_NUM = a + 1 + t - RECORD_NUM + 1
      BY <1>1, <2>1, <2>4 DEF Record
    <3>2. (a + 1 + t - RECORD_NUM + 1) % RECORD_NUM = a + 1 + t - RECORD_NUM + 1
      BY <3>1, Small
    <3>3. (a + 1 + (t + 1)) % RECORD_NUM = a + 1 + (t + 1) - RECORD_NUM
      <4>1. PICK n \in RECORD_NUM..(2 * RECORD_NUM - 1) : n = a + 1 + (t + 1)
        BY <3>1
      <4>2. n % RECORD_NUM = n - RECORD_NUM
        BY Above
      <4>3. QED
        BY <1>1, <4>1, <4>2
    <3>4. QED
      BY <2>2, <3>1, <3>2, <3>3
  <2>5. QED
    BY <2>3, <2>4
<1>4. QED
  BY <1>1, <1>2, <1>3

-------------------------------------------------------------------------------
(* Steps of the server *)

\* With no other server, fcntl never refuses a lock.
LEMMA NoRival ==
    ASSUME IInv, NEW s \in Server, Server = {s}, NEW r \in Record
    PROVE  CanLock(s, r)
BY DEF IInv, TypeOK, CanLock

\* A step that neither tests a record nor looks for one.
Plain(s) == /\ UNCHANGED <<owner, locked, last>>
            /\ at[s] \notin {"found", "pulled"}
            /\ at'[s] \notin {"found", "pulled", "find", "grant", "write"}

LEMMA PlainStep ==
    ASSUME OneInv, NEW s \in Server, Plain(s)
    PROVE  Held(s)' /\ Search(s)' /\ Start(s)'
BY DEF OneInv, Plain, Held, Search, Start

LEMMA PlainServer ==
    ASSUME OneInv, NEW s \in Server,
           \/ StartWrite(s) \/ Poll(s) \/ Refuse(s) \/ Pull(s) \/ PullEnd(s)
           \/ Finish(s) \/ CloseClient(s)
    PROVE  Held(s)' /\ Search(s)' /\ Start(s)'
<1>1. at \in [Server -> {"read", "write", "poll", "serve", "find", "found", "grant",
                         "pull", "pulled", "finish"}]
  BY DEF OneInv, IInv, TypeOK
<1>2. CASE StartWrite(s)
  BY <1>1, <1>2, PlainStep DEF StartWrite, NextRequest, Plain
<1>3. CASE Poll(s)
  BY <1>1, <1>3, PlainStep DEF Poll, Goto, Plain, file, memory
<1>4. CASE Refuse(s)
  BY <1>1, <1>4, PlainStep DEF Refuse, NextRequest, Plain, file
<1>5. CASE Pull(s)
  BY <1>1, <1>5, PlainStep DEF Pull, Receive, Goto, Plain, file
<1>6. CASE PullEnd(s)
  BY <1>1, <1>6, PlainStep DEF PullEnd, NextRequest, Plain, file
<1>7. CASE Finish(s)
  BY <1>1, <1>7, PlainStep DEF Finish, Receive, Goto, Plain, memory
<1>8. CASE CloseClient(s)
  BY <1>1, <1>8, PlainStep DEF CloseClient, Receive, NextRequest, Plain, file
<1>9. QED
  BY <1>2, <1>3, <1>4, <1>5, <1>6, <1>7, <1>8

LEMMA StartReadOne ==
    ASSUME OneInv, NEW s \in Server, StartRead(s)
    PROVE  Held(s)' /\ Search(s)' /\ Start(s)'
<1>1. /\ at[s] = "read" /\ at'[s] = "write" /\ bulletinbuf'[s] = board
      /\ UNCHANGED <<board, owner, locked>>
  BY DEF OneInv, IInv, TypeOK, StartRead, Goto, file
<1>2. QED
  BY <1>1 DEF OneInv, Held, Search, Start

LEMMA PostOne ==
    ASSUME OneInv, NEW s \in Server, Post(s)
    PROVE  Held(s)' /\ Search(s)' /\ Start(s)'
<1>1. /\ at[s] = "serve" /\ at'[s] = "find" /\ tries'[s] = 0
      /\ index'[s] = (last[s] + 1) % RECORD_NUM
      /\ UNCHANGED <<owner, locked, last>> /\ last[s] \in Record
  BY DEF OneInv, IInv, TypeOK, Post, Receive, Goto, file, memory
<1>2. (last[s] + 1) % RECORD_NUM = (last[s] + 1 + 0) % RECORD_NUM
  BY <1>1 DEF Record
<1>3. ASSUME NEW r \in Record PROVE ~(Distance(last[s], r) < 0)
  <2>1. Distance(last[s], r) \in Record
    BY <1>1, Back
  <2>2. QED
    BY <2>1, BulletinAssumption DEF Record
<1>4. Search(s)'
  BY <1>1, <1>2, <1>3 DEF Search, Distance
<1>5. QED
  BY <1>1, <1>4 DEF OneInv, Held, Start

\* One round of find_available(): a record that is not taken is the next free
\* one; a record that is taken is one more to pass over.
LEMMA ProbeOne ==
    ASSUME OneInv, NEW s \in Server, Server = {s}, Probe(s)
    PROVE  Held(s)' /\ Search(s)' /\ Start(s)'
<1>1. /\ at[s] = "find" /\ tries[s] < RECORD_NUM
      /\ UNCHANGED <<locked, last>>
  BY DEF Probe, memory
<1>2. PICK a \in Record, t \in Record, i \in Record :
         /\ a = last[s] /\ t = tries[s] /\ i = index[s] /\ i = (a + 1 + t) % RECORD_NUM
  <2>1. last[s] \in Record /\ tries[s] \in 0..RECORD_NUM /\ index[s] \in Record
    BY <1>1 DEF OneInv, IInv, TypeOK, Place
  <2>2. tries[s] \in Record
    BY <1>1, <2>1, BulletinAssumption DEF Record
  <2>3. QED
    BY <1>1, <2>1, <2>2 DEF OneInv, Search
<1>3. Distance(a, i) = t
  BY <1>2, Around
<1>4. \A r \in Record : Distance(a, r) \in Record /\ (Distance(a, r) < t => r \in locked[s])
  BY <1>1, <1>2, Back DEF OneInv, Search
<1>5. CanLock(s, i)
  BY NoRival DEF OneInv
<1>6. CASE i \notin locked[s]
  <2>1. /\ owner' = [owner EXCEPT ![i] = s] /\ at'[s] = "found"
        /\ UNCHANGED <<index, tries>>
    BY <1>2, <1>5, <1>6 DEF Probe, write_lock, Goto, OneInv, IInv, TypeOK
  <2>2. \A r \in Record : owner'[r] = s <=> r \in locked[s] \/ r = i
    BY <1>1, <1>2, <2>1 DEF OneInv, Held, IInv, TypeOK
  <2>6. Held(s)'
    BY <1>1, <1>2, <2>1, <2>2 DEF Held
  <2>3. \A r \in Record \ locked[s] : Distance(a, i) <= Distance(a, r)
    BY <1>3, <1>4 DEF Record
  <2>4. Search(s)'
    BY <1>1, <1>2, <2>1, <2>3 DEF Search, Distance
  <2>5. QED
    BY <2>1, <2>4, <2>6 DEF Start
<1>7. CASE i \in locked[s]
  <2>1. /\ index'[s] = (i + 1) % RECORD_NUM /\ tries'[s] = t + 1
        /\ UNCHANGED <<owner, at>>
    BY <1>2, <1>7 DEF Probe, Advance, OneInv, IInv, TypeOK
  <2>2. (i + 1) % RECORD_NUM = (a + 1 + (t + 1)) % RECORD_NUM
    BY <1>2, OneMore
  <2>3. ASSUME NEW r \in Record, Distance(a, r) < t + 1 PROVE r \in locked[s]
    <3>1. Distance(a, r) < t \/ Distance(a, r) = t
      BY <1>4, <2>3 DEF Record
    <3>2. CASE Distance(a, r) = t
      BY <1>2, <1>7, <3>2, Back
    <3>3. QED
      BY <1>4, <3>1, <3>2
  <2>4. Search(s)'
    BY <1>1, <1>2, <2>1, <2>2, <2>3 DEF Search, Distance
  <2>5. QED
    BY <1>1, <2>1, <2>4 DEF OneInv, Held, Start
<1>8. QED
  BY <1>6, <1>7

LEMMA FoundOne ==
    ASSUME OneInv, NEW s \in Server, Found(s)
    PROVE  Held(s)' /\ Search(s)' /\ Start(s)'
<1>1. /\ at[s] = "found" /\ at'[s] = "grant" /\ UNCHANGED <<index, locked, last>>
      /\ owner' = [owner EXCEPT ![index[s]] = IF @ = s THEN None ELSE @]
  BY DEF OneInv, IInv, TypeOK, Found, unlock, Goto, memory
<1>2. index[s] \in Record /\ index[s] \notin locked[s]
  BY <1>1 DEF OneInv, IInv, Place
<1>3. Held(s)'
  BY <1>1, <1>2, BulletinAssumption DEF OneInv, Held, IInv, TypeOK
<1>4. QED
  BY <1>1, <1>3 DEF OneInv, Search, Distance, Start

LEMMA GrantOne ==
    ASSUME OneInv, NEW s \in Server, Server = {s}, Grant(s)
    PROVE  Held(s)' /\ Search(s)' /\ Start(s)'
<1>1. at[s] = "grant" /\ at'[s] \in {"poll", "serve"} /\ index[s] \in Record
  BY DEF OneInv, IInv, TypeOK, Place, Grant, NextRequest
<1>2. /\ owner' = [owner EXCEPT ![index[s]] = s]
      /\ locked'[s] = locked[s] \cup {index[s]}
  BY <1>1, NoRival DEF OneInv, IInv, TypeOK, Grant, write_lock
<1>3. Held(s)'
  BY <1>1, <1>2 DEF OneInv, Held, IInv, TypeOK
<1>4. QED
  BY <1>1, <1>3 DEF Search, Start

LEMMA PullTestOne ==
    ASSUME OneInv, NEW s \in Server, Server = {s}, PullTest(s)
    PROVE  Held(s)' /\ Search(s)' /\ Start(s)'
<1>1. at[s] = "pull" /\ index[s] \in Record /\ UNCHANGED locked
  BY BulletinAssumption DEF OneInv, IInv, TypeOK, PullTest, Record, memory
<1>2. CanLock(s, index[s])
  BY <1>1, NoRival DEF OneInv
<1>3. CASE index[s] \notin locked[s]
  <2>1. owner' = [owner EXCEPT ![index[s]] = s] /\ at'[s] = "pulled" /\ UNCHANGED index
    BY <1>2, <1>3 DEF OneInv, IInv, TypeOK, PullTest, write_lock, Goto
  <2>2. QED
    BY <1>1, <1>3, <2>1 DEF OneInv, IInv, TypeOK, Held, Search, Start
<1>4. CASE index[s] \in locked[s]
  <2>1. UNCHANGED <<owner, at>>
    BY <1>4 DEF PullTest
  <2>2. QED
    BY <1>1, <2>1 DEF OneInv, Held, Search, Start
<1>5. QED
  BY <1>3, <1>4

LEMMA PullSendOne ==
    ASSUME OneInv, NEW s \in Server, PullSend(s)
    PROVE  Held(s)' /\ Search(s)' /\ Start(s)'
<1>1. /\ at[s] = "pulled" /\ at'[s] = "pull" /\ UNCHANGED locked
      /\ owner' = [owner EXCEPT ![index[s]] = IF @ = s THEN None ELSE @]
  BY DEF OneInv, IInv, TypeOK, PullSend, unlock, Goto, memory
<1>2. index[s] \in Record /\ index[s] \notin locked[s]
  BY <1>1 DEF OneInv, IInv, Place, Held
<1>3. Held(s)'
  BY <1>1, <1>2, BulletinAssumption DEF OneInv, Held, IInv, TypeOK
<1>4. QED
  BY <1>1, <1>3 DEF Search, Start

LEMMA FinishUnlockOne ==
    ASSUME OneInv, NEW s \in Server, FinishUnlock(s)
    PROVE  Held(s)' /\ Search(s)' /\ Start(s)'
<1>1. /\ at[s] = "finish" /\ at'[s] \in {"poll", "serve"}
      /\ locked'[s] = locked[s] \ {index[s]}
      /\ owner' = [owner EXCEPT ![index[s]] = IF @ = s THEN None ELSE @]
  BY DEF OneInv, IInv, TypeOK, FinishUnlock, NextRequest, unlock
<1>2. index[s] \in Record
  BY <1>1 DEF OneInv, IInv, Place
<1>3. Held(s)'
  BY <1>1, <1>2, BulletinAssumption DEF OneInv, Held, IInv, TypeOK
<1>4. QED
  BY <1>1, <1>3 DEF Search, Start

-------------------------------------------------------------------------------
(* What clients post *)

LEMMA PostsRead ==
    ASSUME OneInv, NEW c \in Client, toServer[c] # <<>>, toServer' = [toServer EXCEPT ![c] = Tail(@)]
    PROVE  Posts'
<1>1. toServer \in [Client -> Seq(Requests)] /\ toServer[c] \in Seq(Requests) /\ Posts
  BY DEF OneInv, IInv, TypeOK
<1>2. \A k \in DOMAIN Tail(toServer[c]) : /\ k + 1 \in DOMAIN toServer[c]
                                          /\ Tail(toServer[c])[k] = toServer[c][k + 1]
  BY <1>1, TailElements
<1>3. \A k \in DOMAIN toServer'[c] : toServer'[c][k].type = "finish" => toServer'[c][k].rd = Text[c]
  BY <1>1, <1>2 DEF Posts
<1>4. QED
  BY <1>1, <1>3 DEF Posts

LEMMA PostsAsk ==
    ASSUME OneInv, NEW c \in Client, NEW m \in Requests, m.type = "finish" => m.rd = Text[c],
           toServer' = [toServer EXCEPT ![c] = Append(@, m)]
    PROVE  Posts'
<1>1. toServer \in [Client -> Seq(Requests)] /\ toServer[c] \in Seq(Requests) /\ Posts
  BY DEF OneInv, IInv, TypeOK
<1>2. toServer'[c] = Append(toServer[c], m) /\ \A d \in Client \ {c} : toServer'[d] = toServer[d]
  BY <1>1
<1>3. /\ DOMAIN toServer[c] = 1..Len(toServer[c]) /\ Len(toServer[c]) \in Nat
      /\ DOMAIN toServer'[c] = 1..(Len(toServer[c]) + 1)
      /\ \A k \in 1..Len(toServer[c]) : toServer'[c][k] = toServer[c][k]
      /\ toServer'[c][Len(toServer[c]) + 1] = m
  BY <1>1, <1>2, AppendProperties, LenProperties
<1>4. ASSUME NEW k \in DOMAIN toServer'[c], toServer'[c][k].type = "finish"
      PROVE  toServer'[c][k].rd = Text[c]
  <2>1. CASE k \in 1..Len(toServer[c])
    BY <1>1, <1>3, <1>4, <2>1 DEF Posts
  <2>2. CASE k = Len(toServer[c]) + 1
    BY <1>3, <1>4, <2>2
  <2>3. QED
    BY <1>3, <2>1, <2>2
<1>5. QED
  BY <1>1, <1>2, <1>4 DEF Posts

LEMMA PostsServer == ASSUME OneInv, NEW s \in Server, server(s) PROVE Posts'
<1>1. ASSUME NEW t \in {"post", "pull", "exit", "finish"}, Receive(s, t) PROVE Posts'
  <2>1. PICK c \in Client : /\ toServer' = [toServer EXCEPT ![c] = Tail(@)]
                            /\ toServer[c] # <<>>
    BY <1>1, Reading DEF OneInv, Was
  <2>2. QED
    BY <2>1, PostsRead
<1>2. CASE UNCHANGED toServer
  BY <1>2 DEF OneInv, Posts
<1>3. QED
  BY <1>1, <1>2 DEF server, find_available, StartRead, StartWrite, Poll, Post, Probe, Found, Grant, Refuse,
     Pull, PullTest, PullSend, PullEnd, Finish, FinishUnlock, CloseClient

\* A client's step leaves the server and the board alone.
LEMMA ClientOne ==
    ASSUME OneInv, NEW c \in Client,
           Connect(c) \/ Command(c) \/ ReadBoard(c) \/ ReadReply(c) \/ Submit(c)
    PROVE  Posts' /\ UNCHANGED <<board, owner, locked, last, at, index, tries, bulletinbuf>>
<1>1. ASSUME NEW m, Ask(c, m), m \in Requests, m.type = "finish" => m.rd = Text[c]
      PROVE  Posts' /\ UNCHANGED <<board, owner, locked, last, at, index, tries, bulletinbuf>>
  BY <1>1, PostsAsk DEF Ask, file, local, memory
<1>2. \A t \in {"pull", "post", "exit"} : [type |-> t] \in Requests /\ [type |-> t].type # "finish"
  BY DEF Requests
<1>3. CASE Connect(c)
  BY <1>1, <1>2, <1>3 DEF Connect
<1>4. CASE Command(c)
  BY <1>1, <1>2, <1>4 DEF Command
<1>5. CASE ReadBoard(c) \/ ReadReply(c)
  BY <1>5 DEF ReadBoard, ReadReply, OneInv, Posts, file, local, memory
<1>6. CASE Submit(c)
  <2> DEFINE m == [type |-> "finish", pos |-> pos[c], rd |-> Text[c]]
  <2>1. Text[c] \in Range(Text) /\ pos[c] \in Record
    BY BulletinAssumption DEF Range, OneInv, IInv, TypeOK
  <2>2. m \in Requests /\ m.rd = Text[c]
    BY <2>1 DEF Requests
  <2>3. QED
    BY <1>1, <1>6, <2>2 DEF Submit
<1>7. QED
  BY <1>3, <1>4, <1>5, <1>6

-------------------------------------------------------------------------------
(* The invariant *)

LEMMA InitOne == ASSUME Init PROVE OneInv
<1>1. IInv
  BY InitIInv
<1>2. Posts
  BY DEF Init, Posts
<1>3. ASSUME NEW s \in Server PROVE Held(s) /\ Search(s) /\ Start(s)
  BY BulletinAssumption DEF Init, Held, Search, Start
<1>4. QED
  BY <1>1, <1>2, <1>3 DEF OneInv

LEMMA NextOne == ASSUME NEW s \in Server, Server = {s}, OneInv, [Next]_vars PROVE OneInv'
<1>1. IInv'
  BY NextIInv DEF OneInv
<1>2. CASE server(s)
  <2>1. Held(s)' /\ Search(s)' /\ Start(s)'
    BY <1>2, StartReadOne, PlainServer, PostOne, ProbeOne, FoundOne, GrantOne, PullTestOne, PullSendOne,
       FinishUnlockOne DEF server, find_available
  <2>2. Posts'
    BY <1>2, PostsServer
  <2>3. QED
    BY <1>1, <2>1, <2>2 DEF OneInv
<1>3. ASSUME Posts', UNCHANGED <<board, owner, locked, last, at, index, tries, bulletinbuf>> PROVE OneInv'
  BY <1>1, <1>3 DEF OneInv, Held, Search, Start, Distance
<1>4. ASSUME NEW c \in Client, Connect(c) \/ Command(c) \/ ReadBoard(c) \/ ReadReply(c) \/ Submit(c)
      PROVE  OneInv'
  BY <1>3, <1>4, ClientOne
<1>5. CASE UNCHANGED vars
  <2>1. Posts'
    BY <1>5 DEF vars, OneInv, Posts
  <2>2. QED
    BY <1>3, <1>5, <2>1 DEF vars, file, local, memory
<1>6. QED
  BY <1>2, <1>4, <1>5 DEF Next, Idle

LEMMA OneInvariant == ASSUME NEW s \in Server, Server = {s} PROVE Spec => []OneInv
<1>1. OneInv /\ [Next]_vars => OneInv'
  BY NextOne
<1>2. QED
  BY InitOne, <1>1, PTL DEF Spec

\* With one server find_available() returns the first record behind the last
\* grant that nobody edits, answers "full" only if every record is being
\* edited, and every granted record is locked in the kernel.
THEOREM FindsNextCorrect == ASSUME NEW s \in Server, Server = {s} PROVE Spec => []FindsNext
<1>1. OneInv => FindsNext
  <2> SUFFICES ASSUME OneInv PROVE FindsNext
    OBVIOUS
  <2>1. at[s] = "grant" => index[s] \notin locked[s]
    BY DEF OneInv, IInv, Place
  <2>2. at[s] = "grant" =>
          \A r \in Record \ locked[s] : Distance(last[s], index[s]) <= Distance(last[s], r)
    BY DEF OneInv, Search
  <2>3. ASSUME at[s] = "find", tries[s] = RECORD_NUM PROVE locked[s] = Record
    <3>1. last[s] \in Record /\ locked[s] \subseteq Record
      BY DEF OneInv, IInv, TypeOK
    <3>2. ASSUME NEW r \in Record PROVE r \in locked[s]
      <4>1. Distance(last[s], r) \in Record
        BY <3>1, Back
      <4>2. Distance(last[s], r) < RECORD_NUM
        BY <4>1, BulletinAssumption DEF Record
      <4>3. QED
        BY <2>3, <4>2 DEF OneInv, Search
    <3>3. QED
      BY <3>1, <3>2
  <2>4. \A r \in locked[s] : owner[r] = s
    BY DEF OneInv, Held, IInv, TypeOK
  <2>5. QED
    BY <2>1, <2>2, <2>3, <2>4 DEF FindsNext
<1>2. QED
  BY <1>1, OneInvariant, PTL

\* With one server the start-up's read and write of the whole board change
\* nothing; it takes a second server to lose a post.
THEOREM StartHarmless == ASSUME NEW u \in Server, Server = {u} PROVE Spec => StartKeepsBoard
<1>1. OneInv /\ [Next]_vars => [\A s \in Server : StartWrite(s) => board' = board]_vars
  BY DEF OneInv, Start, StartWrite
<1>2. Spec => []OneInv
  BY OneInvariant
<1>3. QED
  BY <1>1, <1>2, PTL DEF Spec, StartKeepsBoard

-------------------------------------------------------------------------------
(* Board is implemented *)

LEMMA LastIs == ASSUME NEW s, Server = {s} PROVE (CHOOSE u \in Server : TRUE) = s
OBVIOUS

\* The holder of a record in terms of the server's table and its clients.
LEMMA HolderOf ==
    ASSUME IInv, NEW s \in Server, Server = {s}, NEW r \in Record
    PROVE  /\ r \notin Lent(s) => Holder(r) = None
           /\ r \in Lent(s) => \E c \in Client : Holder(r) = c /\ Holds(c, r)
           /\ \A c \in Client : r \in Lent(s) /\ Holds(c, r) => Holder(r) = c
<1>1. Lent(s) \subseteq locked[s] /\ \A c \in Client : Home[c] = s
  BY BulletinAssumption DEF Lent
<1>2. r \in Lent(s) => \E c \in Client : Holds(c, r)
  BY <1>1 DEF IInv, Grants
<1>3. r \in Lent(s) => Holder(r) = CHOOSE c \in Client : Holds(c, r)
  BY DEF Holder
<1>4. r \in Lent(s) => \E c \in Client : Holder(r) = c /\ Holds(c, r)
  BY <1>2, <1>3
<1>5. \A c, d \in Client : Holds(c, r) /\ Holds(d, r) => c = d
  BY <1>1 DEF IInv, Grants
<1>6. r \notin Lent(s) => Holder(r) = None
  BY DEF Holder
<1>7. QED
  BY <1>4, <1>5, <1>6

\* The same of the next state.
LEMMA HolderOfNext ==
    ASSUME IInv', NEW s \in Server, Server = {s}, NEW r \in Record
    PROVE  /\ r \notin Lent(s)' => Holder(r)' = None
           /\ r \in Lent(s)' => \E c \in Client : Holder(r)' = c /\ Holds(c, r)'
           /\ \A c \in Client : r \in Lent(s)' /\ Holds(c, r)' => Holder(r)' = c
<1>1. Lent(s)' \subseteq locked'[s] /\ \A c \in Client : Home[c] = s
  BY BulletinAssumption DEF Lent
<1>2. r \in Lent(s)' => \E c \in Client : Holds(c, r)'
  BY <1>1 DEF IInv, Grants
<1>3. r \in Lent(s)' => Holder(r)' = CHOOSE c \in Client : Holds(c, r)'
  BY DEF Holder
<1>4. r \in Lent(s)' => \E c \in Client : Holder(r)' = c /\ Holds(c, r)'
  BY <1>2, <1>3
<1>5. \A c, d \in Client : Holds(c, r)' /\ Holds(d, r)' => c = d
  BY <1>1 DEF IInv, Grants
<1>6. r \notin Lent(s)' => Holder(r)' = None
  BY DEF Holder
<1>7. QED
  BY <1>4, <1>5, <1>6

LEMMA SameHolder ==
    ASSUME IInv, IInv', NEW s \in Server, Server = {s}, NEW r \in Record,
           r \in Lent(s)' <=> r \in Lent(s),
           r \in Lent(s) => \A c \in Client : Holds(c, r)' <=> Holds(c, r)
    PROVE  Holder(r)' = Holder(r)
<1>1. CASE r \in Lent(s)
  <2>1. PICK c \in Client : Holder(r) = c /\ Holds(c, r)
    BY <1>1, HolderOf
  <2>2. Holds(c, r)'
    BY <1>1, <2>1
  <2>3. Holder(r)' = c
    BY <1>1, <2>2, HolderOfNext
  <2>4. QED
    BY <2>1, <2>3
<1>2. CASE r \notin Lent(s)
  BY <1>2, HolderOf, HolderOfNext
<1>3. QED
  BY <1>1, <1>2

\* A step that Board does not see.
LEMMA Unseen ==
    ASSUME IInv, IInv', NEW s \in Server, Server = {s}, UNCHANGED <<board, last>>,
           \A r \in Record : r \in Lent(s)' <=> r \in Lent(s),
           \A r \in Record : r \in Lent(s) => \A c \in Client : Holds(c, r)' <=> Holds(c, r)
    PROVE  UNCHANGED B!vars
<1>1. \A r \in Record : Holder(r)' = Holder(r)
  BY SameHolder
<1>2. QED
  BY <1>1 DEF B!vars

LEMMA GrantLends ==
    ASSUME OneInv, IInv', NEW s \in Server, Server = {s}, Grant(s)
    PROVE  \E c \in Client, r \in Record : B!Lend(c, r)
<1>1. PICK c \in Client, r \in Record :
         /\ r = index[s] /\ r \notin locked[s] /\ Holds(c, r)'
         /\ \A d \in Client : \A q \in Record \ {r} : Holds(d, q)' <=> Holds(d, q)
  BY GrantStep DEF OneInv
<1>2. /\ at[s] = "grant" /\ at'[s] # "finish" /\ board' = board
      /\ locked'[s] = locked[s] \cup {r} /\ last'[s] = r
  BY <1>1 DEF OneInv, IInv, TypeOK, Grant, NextRequest
<1>3. Lent(s) = locked[s] /\ Lent(s)' = locked[s] \cup {r}
  BY <1>2 DEF Lent
<1>4. Holder(r) = None /\ Holder(r)' = c
  BY <1>1, <1>3, HolderOf, HolderOfNext DEF OneInv
<1>5. ASSUME NEW q \in Record, q # r PROVE Holder(q)' = Holder(q)
  BY <1>1, <1>3, <1>5, SameHolder DEF OneInv
<1>6. ASSUME NEW q \in Record, Holder(q) = None PROVE q \notin locked[s]
  BY <1>3, <1>6, HolderOf, BulletinAssumption DEF OneInv
<1>7. ASSUME NEW q \in Record \ locked[s] PROVE (r - last[s] - 1) % RECORD_NUM <= (q - last[s] - 1) % RECORD_NUM
  BY <1>1, <1>2 DEF OneInv, Search, Distance
<1>8. [q \in Record |-> Holder(q)]' = [[q \in Record |-> Holder(q)] EXCEPT ![r] = c]
  BY <1>4, <1>5
<1>9. (CHOOSE u \in Server : TRUE) = s
  BY LastIs
<1>10. B!Lend(c, r)
  BY <1>2, <1>4, <1>6, <1>7, <1>8, <1>9 DEF B!Lend, B!Distance, B!Record, Record
<1>11. QED
  BY <1>10

LEMMA FinishPosts ==
    ASSUME OneInv, IInv', NEW s \in Server, Server = {s}, Finish(s)
    PROVE  \E c \in Client, r \in Record : B!Post(c, r)
<1>1. PICK c \in Client : /\ Home[c] = s /\ at[s] = "serve"
                          /\ Request(s) = toServer[c][1] /\ Was(c, "finish")
  BY Reading DEF Finish, OneInv
<1>2. Request(s) \in [type : {"finish"}, pos : Record, rd : Range(Text)]
  BY <1>1 DEF Was, Requests
<1>3. PICK r \in Record : r = Request(s).pos
  BY <1>2
<1>4. 1 \in DOMAIN toServer[c]
  BY <1>1 DEF Was
<1>5. Request(s).rd = Text[c] /\ Holds(c, r)
  BY <1>1, <1>3, <1>4 DEF Was, OneInv, Posts, Holds, InMessage
<1>6. r \in locked[s]
  BY <1>1, <1>5 DEF OneInv, IInv, Grants
<1>7. /\ at'[s] = "finish" /\ index'[s] = r /\ UNCHANGED <<locked, last>>
      /\ board' = [board EXCEPT ![r] = Text[c]]
  BY <1>3, <1>5 DEF OneInv, IInv, TypeOK, Finish, Goto, memory
<1>8. Lent(s) = locked[s] /\ Lent(s)' = locked[s] \ {r}
  BY <1>1, <1>7 DEF Lent
<1>9. Holder(r) = c /\ Holder(r)' = None
  BY <1>5, <1>6, <1>8, HolderOf, HolderOfNext DEF OneInv
<1>10. Holding
  BY FinishStep DEF OneInv
<1>11. ASSUME NEW q \in Record, q # r PROVE Holder(q)' = Holder(q)
  BY <1>8, <1>10, <1>11, SameHolder DEF OneInv, Holding
<1>12. [q \in Record |-> Holder(q)]' = [[q \in Record |-> Holder(q)] EXCEPT ![r] = None]
  BY <1>9, <1>11
<1>13. B!Post(c, r)
  BY <1>7, <1>9, <1>12 DEF B!Post, B!Record, Record
<1>14. QED
  BY <1>13

\* Every step of Spec is a grant, a post or nothing to Board.
LEMMA StepImplements ==
    ASSUME OneInv, IInv', NEW s \in Server, Server = {s}, [Next]_vars
    PROVE  [B!Next]_(B!vars)
<1>1. ASSUME Holding, UNCHANGED <<board, last>>, \A r \in Record : r \in Lent(s)' <=> r \in Lent(s)
      PROVE  UNCHANGED B!vars
  BY <1>1, Unseen DEF OneInv, Holding
<1>2. ASSUME Holding, UNCHANGED <<board, last, locked>>, at[s] # "finish", at'[s] # "finish"
      PROVE  UNCHANGED B!vars
  BY <1>1, <1>2 DEF Lent
<1>3. at \in [Server -> {"read", "write", "poll", "serve", "find", "found", "grant",
                         "pull", "pulled", "finish"}]
  BY DEF OneInv, IInv, TypeOK
<1>4. CASE StartRead(s)
  BY <1>2, <1>3, <1>4, StartReadStep DEF OneInv, StartRead, Goto, file
<1>5. CASE StartWrite(s)
  BY <1>2, <1>3, <1>5, StartWriteStep DEF OneInv, Start, StartWrite, NextRequest
<1>6. CASE Poll(s)
  BY <1>2, <1>3, <1>6, PollStep DEF OneInv, Poll, Goto, file, memory
<1>7. CASE Post(s)
  BY <1>2, <1>3, <1>7, PostStep DEF OneInv, Post, Receive, Goto, file, memory
<1>8. CASE Probe(s)
  BY <1>2, <1>3, <1>8, ProbeStep DEF OneInv, Probe, Goto, memory
<1>9. CASE Found(s)
  BY <1>2, <1>3, <1>9, FoundStep DEF OneInv, Found, Goto, memory
<1>10. CASE Grant(s)
  BY <1>10, GrantLends DEF B!Next, B!Record, Record
<1>11. CASE Refuse(s)
  BY <1>2, <1>3, <1>11, RefuseStep DEF OneInv, Refuse, NextRequest, file
<1>12. CASE Pull(s)
  BY <1>2, <1>3, <1>12, PullStep DEF OneInv, Pull, Receive, Goto, file
<1>13. CASE PullTest(s)
  BY <1>2, <1>3, <1>13, PullTestStep DEF OneInv, PullTest, Goto, memory
<1>14. CASE PullSend(s)
  BY <1>2, <1>3, <1>14, PullSendStep DEF OneInv, PullSend, Goto, memory
<1>15. CASE PullEnd(s)
  BY <1>2, <1>3, <1>15, PullEndStep DEF OneInv, PullEnd, NextRequest, file
<1>16. CASE Finish(s)
  BY <1>16, FinishPosts DEF B!Next, B!Record, Record
<1>17. CASE FinishUnlock(s)
  <2>1. PICK r \in Record : /\ r = index[s]
                            /\ \A d \in Client : \A q \in Record \ {r} : Holds(d, q)' <=> Holds(d, q)
    BY <1>17, FinishUnlockStep DEF OneInv
  <2>2. /\ at[s] = "finish" /\ at'[s] # "finish" /\ UNCHANGED <<board, last>>
        /\ locked'[s] = locked[s] \ {r}
    BY <1>17, <2>1 DEF OneInv, IInv, TypeOK, FinishUnlock, NextRequest
  <2>3. Lent(s) = locked[s] \ {r} /\ Lent(s)' = locked[s] \ {r}
    BY <2>1, <2>2 DEF Lent
  <2>4. QED
    BY <2>1, <2>2, <2>3, Unseen DEF OneInv
<1>18. CASE CloseClient(s)
  BY <1>2, <1>3, <1>18, CloseClientStep DEF OneInv, CloseClient, Receive, NextRequest, file
<1>19. ASSUME NEW c \in Client, Connect(c) \/ Command(c) \/ ReadBoard(c) \/ ReadReply(c) \/ Submit(c)
       PROVE  UNCHANGED B!vars
  <2>1. Holding
    BY <1>19, ConnectStep, CommandStep, ReadBoardStep, ReadReplyStep, SubmitStep DEF OneInv
  <2>2. UNCHANGED <<board, last, locked, at, index>>
    BY <1>19, ClientOne
  <2>3. QED
    BY <1>1, <2>1, <2>2 DEF Lent
<1>20. CASE UNCHANGED vars
  <2>1. UNCHANGED <<board, last, locked, at, index, conn, cat, pos, toServer, toClient>>
    BY <1>20 DEF vars, file, local, memory, client
  <2>2. Holding
    BY <2>1 DEF Holding, Holds
  <2>3. QED
    BY <1>1, <2>1, <2>2 DEF Lent
<1>21. QED
  BY <1>4, <1>5, <1>6, <1>7, <1>8, <1>9, <1>10, <1>11, <1>12, <1>13, <1>14, <1>15, <1>16, <1>17, <1>18,
     <1>19, <1>20 DEF Next, Idle, server, find_available

\* One server.c with its clients implements Board: each client is lent the next
\* free record and its post replaces it in one step, however requests, answers
\* and the server's reads and writes of the file are interleaved.
THEOREM KeepsBoardPromise == ASSUME NEW s \in Server, Server = {s} PROVE Spec => BoardPromise
<1>1. Init => B!Init
  <2> SUFFICES ASSUME Init PROVE B!Init
    OBVIOUS
  <2>1. \A r \in Record : Holder(r) = None
    BY DEF Init, Holder, Lent
  <2>2. (CHOOSE u \in Server : TRUE) = s
    BY LastIs
  <2>3. QED
    BY <2>1, <2>2 DEF Init, Blank, B!Init, B!Record, Record
<1>2. OneInv /\ OneInv' /\ [Next]_vars => [B!Next]_(B!vars)
  BY StepImplements DEF OneInv
<1>3. Spec => []OneInv
  BY OneInvariant
<1>4. QED
  BY <1>1, <1>2, <1>3, PTL DEF Spec, B!Spec, BoardPromise
==============================================================================
