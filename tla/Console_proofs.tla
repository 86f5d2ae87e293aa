--------------------------- MODULE Console_proofs ---------------------------
(***************************************************************************)
(* The transmit channel of the console implements KeyChannel, for any      *)
(* number of keys, pastes of any size and any failures; and the receiving  *)
(* half shows what the server believes it shows, for screens of any size.  *)
(***************************************************************************)
EXTENDS Console, SequenceTheorems, WellFoundedInduction, TLAPS

(***************************************************************************)
(* Sequences.                                                              *)
(***************************************************************************)
LEMMA FrontOfConcat ==
  ASSUME NEW S, NEW a \in Seq(S), NEW b \in Seq(S)
  PROVE  SubSeq(a \o b, 1, Len(a)) = a
<1> DEFINE c == a \o b
           d == SubSeq(c, 1, Len(a))
<1>1. /\ c \in Seq(S) /\ Len(c) = Len(a) + Len(b)
      /\ \A i \in 1..Len(a) + Len(b) : c[i] = IF i <= Len(a) THEN a[i] ELSE b[i - Len(a)]
  BY ConcatProperties
<1>2. Len(a) \in Nat /\ Len(b) \in Nat
  OBVIOUS
<1> HIDE DEF c
<1>3. d \in Seq(S) /\ Len(d) = Len(a) /\ \A i \in 1..Len(a) : d[i] = c[i]
  BY <1>1, <1>2, SubSeqProperties
<1> HIDE DEF d
<1>4. \A i \in 1..Len(a) : d[i] = a[i]
  BY <1>1, <1>2, <1>3
<1>5. d = a
  BY <1>3, <1>4, SeqEqual
<1> QED
  BY <1>5 DEF c, d

\* What follows the front of a concatenation is its second part.
LEMMA TailOfConcat ==
  ASSUME NEW S, NEW a \in Seq(S), NEW b \in Seq(S)
  PROVE  SubSeq(a \o b, Len(a) + 1, Len(a \o b)) = b
<1> DEFINE c == a \o b
           d == SubSeq(c, Len(a) + 1, Len(c))
<1>1. /\ c \in Seq(S) /\ Len(c) = Len(a) + Len(b)
      /\ \A i \in 1..Len(a) + Len(b) : c[i] = IF i <= Len(a) THEN a[i] ELSE b[i - Len(a)]
  BY ConcatProperties
<1>2. Len(a) \in Nat /\ Len(b) \in Nat
  OBVIOUS
<1> HIDE DEF c
<1>3. \A i \in (Len(a) + 1)..Len(c) : c[i] \in S
  BY <1>1, <1>2
<1>4. d \in Seq(S) /\ Len(d) = Len(b) /\ \A i \in 1..Len(b) : d[i] = c[Len(a) + i]
  BY <1>1, <1>2, <1>3, SubSeqProperties
<1> HIDE DEF d
<1>5. ASSUME NEW i \in 1..Len(b)
      PROVE  d[i] = b[i]
  <2>1. Len(a) + i \in 1..Len(a) + Len(b) /\ ~(Len(a) + i <= Len(a)) /\ Len(a) + i - Len(a) = i
    BY <1>2
  <2>2. d[i] = c[Len(a) + i]
    BY <1>4
  <2>3. c[Len(a) + i] = b[Len(a) + i - Len(a)]
    BY <1>1, <2>1
  <2> QED
    BY <2>1, <2>2, <2>3
<1>6. d = b
  BY <1>4, <1>5, SeqEqual
<1> QED
  BY <1>6 DEF c, d

-----------------------------------------------------------------------------
(***************************************************************************)
(* send() is called only while no request is under way: there is at most   *)
(* one, and the keys it carries are ahead of those in kb_buf.              *)
(***************************************************************************)
Keys == Seq(Nat)

Batch(r) == DOMAIN r = {"keys", "answer"} /\ r.keys \in Keys /\ r.keys # <<>>

OneSend ==
  /\ \A r \in sends : send_in_progress /\ Batch(r)
  /\ \A r, q \in sends : r = q

KInv == typed \in Nat /\ kb_buf \in Keys /\ received \in Keys /\ OneSend

Waiting == OnTheWay \o kb_buf

\* Without an unhandled request no keys are on the way.
LEMMA NothingOnTheWay ==
  ASSUME \A r \in sends : r.answer # None
  PROVE  OnTheWay = <<>>
BY DEF OnTheWay

\* The only request holds the keys on the way.
LEMMA TheBatch ==
  ASSUME NEW r, sends = {r}, r.answer = None
  PROVE  OnTheWay = r.keys
BY DEF OnTheWay

\* Keys on the way are keys.
LEMMA OnTheWayType == KInv => OnTheWay \in Keys
<1> SUFFICES ASSUME KInv PROVE OnTheWay \in Keys
  OBVIOUS
<1>1. CASE \A r \in sends : r.answer # None
  <2>1. OnTheWay = <<>>
    BY <1>1, NothingOnTheWay
  <2> QED
    BY <2>1 DEF Keys
<1>2. CASE \E r \in sends : r.answer = None
  <2>1. PICK r \in sends : r.answer = None
    BY <1>2
  <2>2. sends = {r} /\ r.keys \in Keys
    BY DEF KInv, OneSend, Batch
  <2>3. OnTheWay = r.keys
    BY <2>1, <2>2, TheBatch
  <2> QED
    BY <2>2, <2>3
<1> QED
  BY <1>1, <1>2

\* Nothing is typed or sent initially.
LEMMA SendsInit == Init => KInv
BY DEF Init, KInv, OneSend, Keys

\* maybe_send with a buffer that is ahead of nothing else: all that waits, waits
\* still, in the same order.
LEMMA MaybeSent ==
  ASSUME KInv, NEW isOpen, NEW buf \in Keys, MaybeSend(isOpen, buf), typed' \in Nat,
         UNCHANGED received
  PROVE  KInv' /\ Waiting' = OnTheWay \o buf
<1>1. CASE ~send_in_progress /\ isOpen /\ buf # <<>>
  <2> DEFINE q == [keys |-> buf, answer |-> None]
  <2>1. sends = {}
    BY <1>1 DEF KInv, OneSend
  <2>2. sends' = {q} /\ send_in_progress' = TRUE /\ kb_buf' = <<>>
    BY <1>1, <2>1 DEF MaybeSend, Send
  <2>3. Batch(q) /\ q.keys = buf /\ q.answer = None
    BY <1>1 DEF Batch
  <2> HIDE DEF q
  <2>4. KInv'
    BY <2>2, <2>3 DEF KInv, OneSend, Keys
  <2>5. OnTheWay = <<>>
    BY <2>1, NothingOnTheWay
  <2>6. OnTheWay' = buf
    BY <2>2, <2>3 DEF OnTheWay
  <2>7. buf \o <<>> = buf /\ <<>> \o buf = buf
    BY ConcatEmptySeq DEF Keys
  <2> QED
    BY <2>2, <2>4, <2>5, <2>6, <2>7 DEF Waiting
<1>2. CASE ~(~send_in_progress /\ isOpen /\ buf # <<>>)
  <2>1. kb_buf' = buf /\ UNCHANGED <<send_in_progress, sends>>
    BY <1>2 DEF MaybeSend, NoSend
  <2>2. KInv'
    BY <2>1 DEF KInv, OneSend, Batch
  <2>3. OnTheWay' = OnTheWay
    BY <2>1 DEF OnTheWay
  <2> QED
    BY <2>1, <2>2, <2>3 DEF Waiting
<1> QED
  BY <1>1, <1>2

\* Keys appended twice are appended in order.
LEMMA KeysConcat ==
  ASSUME NEW s \in Seq(Nat), NEW t \in Seq(Nat), NEW u \in Seq(Nat)
  PROVE  (s \o t) \o u = s \o (t \o u)
BY ConcatAssociative, SMT

\* A key typed on the page is a key typed into the channel.
LEMMA KeyTyped ==
  ASSUME KInv, NEW n \in 1..MaxBatch, ProcessKey(n)
  PROVE  KInv' /\ Channel!Type(n)
<1> DEFINE new == [i \in 1..n |-> typed + i]
           buf == kb_buf \o new
<1>0. typed \in Nat /\ kb_buf \in Keys /\ OnTheWay \in Keys
  BY OnTheWayType DEF KInv
<1>1. typed' = typed + n /\ MaybeSend(open, buf) /\ UNCHANGED received
  BY DEF ProcessKey, serverVars
<1>2. n \in Nat /\ new \in Keys
  <2>1. n \in Nat
    <3>1. MaxBatch \in Nat \ {0}
      BY ConsoleAssumption, Zenon
    <3> QED
      BY <3>1
  <2> QED
    BY <1>0, <2>1 DEF Keys
<1> HIDE DEF new
<1>3. buf \in Keys
  BY <1>0, <1>2, ConcatProperties DEF Keys
<1>4. Waiting' = OnTheWay \o buf /\ KInv'
  <2> HIDE DEF buf
  <2>1. typed' \in Nat
    BY <1>0, <1>1, <1>2
  <2> QED
    BY <1>1, <1>3, <2>1, MaybeSent
<1>5. OnTheWay \o buf = Waiting \o new
  <2>1. OnTheWay \in Seq(Nat) /\ kb_buf \in Seq(Nat) /\ new \in Seq(Nat)
    BY <1>0, <1>2 DEF Keys
  <2>2. (OnTheWay \o kb_buf) \o new = OnTheWay \o (kb_buf \o new)
    BY <2>1, KeysConcat
  <2> QED
    BY <2>2 DEF Waiting
<1>6. Waiting' = Waiting \o new
  BY <1>4, <1>5
<1> QED
  BY <1>1, <1>4, <1>6 DEF Channel!Type, Waiting, new

\* The server handles the request, or it is lost: the batch leaves the front.
LEMMA BatchLeaves ==
  ASSUME KInv, NEW r \in sends, r.answer = None, NEW a, a # None,
         sends' = (sends \ {r}) \cup {[r EXCEPT !.answer = a]},
         received' \in {received, received \o r.keys},
         UNCHANGED <<typed, kb_buf, send_in_progress>>
  PROVE  KInv' /\ Channel!Next
<1> DEFINE q == [r EXCEPT !.answer = a]
           n == Len(r.keys)
<1>1. sends = {r} /\ Batch(r) /\ send_in_progress
  BY DEF KInv, OneSend
<1>2. sends' = {q}
  BY <1>1
<1>3. Batch(q) /\ q.answer = a
  BY <1>1 DEF Batch
<1> HIDE DEF q
<1>4. kb_buf \in Keys /\ received \in Keys /\ r.keys \in Keys /\ r.keys # <<>>
  BY <1>1 DEF KInv, Batch
<1>5. OnTheWay = r.keys /\ OnTheWay' = <<>>
  BY <1>1, <1>2, <1>3 DEF OnTheWay
<1>6. Waiting = r.keys \o kb_buf /\ Waiting' = kb_buf
  BY <1>4, <1>5, ConcatEmptySeq DEF Waiting, Keys
<1>7. SubSeq(Waiting, 1, n) = r.keys /\ SubSeq(Waiting, n + 1, Len(Waiting)) = kb_buf
  BY <1>4, <1>6, FrontOfConcat, TailOfConcat DEF Keys
<1>8. n \in 1..Len(Waiting)
  <2>1. Len(Waiting) = n + Len(kb_buf)
    BY <1>4, <1>6, ConcatProperties DEF Keys
  <2>2. n \in Nat \ {0} /\ Len(kb_buf) \in Nat
    BY <1>4, EmptySeq, LenProperties DEF Keys
  <2> HIDE DEF n
  <2> QED
    BY <2>1, <2>2
<1>9. KInv'
  <2>1. received' \in Keys
    BY <1>4, ConcatProperties DEF Keys
  <2> QED
    BY <1>1, <1>2, <1>3, <2>1 DEF KInv, OneSend
<1>10. Channel!Leave(n)
  BY <1>6, <1>7 DEF Channel!Leave, Waiting
<1>11. CASE received' = received
  <2>1. Channel!Lose(n)
    BY <1>10, <1>11 DEF Channel!Lose
  <2> QED
    BY <1>8, <1>9, <2>1 DEF Channel!Next, Waiting
<1>12. CASE received' = received \o r.keys
  <2>1. Channel!Deliver(n)
    BY <1>7, <1>10, <1>12 DEF Channel!Deliver, Waiting
  <2> QED
    BY <1>8, <1>9, <2>1 DEF Channel!Next, Waiting
<1> QED
  BY <1>11, <1>12

\* A batch that reaches the server is delivered by the channel, one that does not is lost by it.
LEMMA Served ==
  ASSUME KInv, NEW r \in sends, ServeSend(r) \/ SendLost(r)
  PROVE  KInv' /\ Channel!Next
<1>1. /\ r.answer = None /\ UNCHANGED <<typed, kb_buf, send_in_progress>>
      /\ received' \in {received, received \o r.keys}
  BY DEF ServeSend, SendLost, serverVars
<1>2. \E a \in {"ok", "E", "", "status"} : sends' = (sends \ {r}) \cup {[r EXCEPT !.answer = a]}
  <2>1. CASE ServeSend(r)
    <3>1. CASE session = "up"
      BY <2>1, <3>1 DEF ServeSend
    <3>2. CASE session # "up"
      BY <2>1, <3>2 DEF ServeSend
    <3> QED
      BY <3>1, <3>2
  <2>2. CASE SendLost(r)
    BY <2>2 DEF SendLost
  <2> QED
    BY <2>1, <2>2
<1>3. PICK a \in {"ok", "E", "", "status"} : sends' = (sends \ {r}) \cup {[r EXCEPT !.answer = a]}
  BY <1>2
<1>4. a # None
  BY ConsoleAssumption
<1> QED
  BY <1>1, <1>3, <1>4, BatchLeaves

\* send_done sends what was typed meanwhile: it waits as before.
LEMMA Done ==
  ASSUME KInv, NEW r \in sends, SendDone(r)
  PROVE  KInv' /\ UNCHANGED <<typed, Waiting, received>>
<1> DEFINE again == ~(r.answer \in {"E", "status"}) /\ kb_buf # <<>>
           q     == [keys |-> kb_buf, answer |-> None]
<1>1. sends = {r} /\ r.answer # None
  BY DEF KInv, OneSend, SendDone
<1>2. kb_buf \in Keys /\ UNCHANGED <<typed, received>>
  BY DEF KInv, SendDone, serverVars
<1>3. OnTheWay = <<>>
  BY <1>1, NothingOnTheWay
<1>4. <<>> \o kb_buf = kb_buf /\ kb_buf \o <<>> = kb_buf
  BY <1>2, ConcatEmptySeq DEF Keys
<1>5. CASE again
  <2>1. sends' = {q} /\ send_in_progress' /\ kb_buf' = <<>>
    BY <1>1, <1>5 DEF SendDone
  <2>2. Batch(q) /\ q.answer = None /\ q.keys = kb_buf
    BY <1>2, <1>5 DEF Batch
  <2> HIDE DEF q
  <2>3. OnTheWay' = kb_buf
    BY <2>1, <2>2 DEF OnTheWay
  <2>4. KInv'
    BY <1>2, <2>1, <2>2 DEF KInv, OneSend, Keys
  <2> QED
    BY <1>2, <1>3, <1>4, <2>1, <2>3, <2>4 DEF Waiting
<1>6. CASE ~again
  <2>1. sends' = {} /\ kb_buf' = kb_buf
    BY <1>1, <1>6 DEF SendDone
  <2>2. OnTheWay' = <<>>
    BY <2>1 DEF OnTheWay
  <2>3. KInv'
    BY <1>2, <2>1 DEF KInv, OneSend
  <2> QED
    BY <1>2, <1>3, <2>1, <2>2, <2>3 DEF Waiting
<1> QED
  BY <1>5, <1>6

\* Opening the session sends the waiting keys; the channel does not notice.
LEMMA Opened ==
  ASSUME KInv, OpenTerm
  PROVE  KInv' /\ UNCHANGED <<typed, Waiting, received>>
<1>1. MaybeSend(TRUE, kb_buf) /\ UNCHANGED <<typed, received>>
  BY DEF OpenTerm
<1>2. kb_buf \in Keys /\ typed' \in Nat
  BY <1>1 DEF KInv
<1>3. KInv' /\ Waiting' = OnTheWay \o kb_buf
  BY <1>1, <1>2, MaybeSent
<1> QED
  BY <1>1, <1>3 DEF Waiting

\* Steps of the receiving half do not touch the channel.
LEMMA Undisturbed ==
  ASSUME KInv, UNCHANGED <<sendVars, typed, received>>
  PROVE  KInv' /\ UNCHANGED <<typed, Waiting, received>>
<1>1. UNCHANGED <<sends, kb_buf, send_in_progress>>
  BY DEF sendVars
<1>2. KInv'
  BY <1>1 DEF KInv, OneSend, Batch
<1>3. OnTheWay' = OnTheWay
  BY <1>1 DEF OnTheWay
<1> QED
  BY <1>1, <1>2, <1>3 DEF Waiting

\* Every step of the console is one of the channel or leaves it alone.
LEMMA ChannelStep == KInv /\ [Next]_vars => KInv' /\ [Channel!Next]_<<typed, Waiting, received>>
<1> SUFFICES ASSUME KInv, [Next]_vars
             PROVE  KInv' /\ (Channel!Next \/ UNCHANGED <<typed, Waiting, received>>)
  OBVIOUS
<1>1. CASE Input
  <2>1. PICK n \in 1..MaxBatch : ProcessKey(n)
    <3>0. MaxBatch \in Nat \ {0}
      BY ConsoleAssumption, Zenon
    <3>1. 1 \in 1..MaxBatch
      BY <3>0
    <3> QED
      BY <1>1, <3>1 DEF Input, Press, Paste
  <2> QED
    BY <2>1, KeyTyped DEF Channel!Next
<1>2. CASE Network
  <2>1. ASSUME NEW r \in sends, ServeSend(r) \/ SendLost(r)
        PROVE  KInv' /\ Channel!Next
    BY <2>1, Served
  <2>2. ASSUME NEW r \in sends, SendDone(r)
        PROVE  KInv' /\ UNCHANGED <<typed, Waiting, received>>
    BY <2>2, Done
  <2>3. ASSUME NEW r \in rcvs, ServeRcv(r) \/ RcvLost(r) \/ Rcv(r)
        PROVE  KInv' /\ UNCHANGED <<typed, Waiting, received>>
    <3>1. UNCHANGED <<sendVars, typed, received>>
      BY <2>3 DEF ServeRcv, RcvLost, Rcv, serverVars
    <3> QED
      BY <3>1, Undisturbed
  <2> QED
    BY <1>2, <2>1, <2>2, <2>3 DEF Network
<1>3. CASE OpenTerm
  BY <1>3, Opened
<1>4. CASE CreateTerm \/ OpenFails \/ CloseTerm \/ CloseDone \/ ScreenChanges \/ SessionEnds
  <2>1. UNCHANGED <<sendVars, typed, received>>
    BY <1>4 DEF CreateTerm, OpenFails, CloseTerm, CloseDone, ScreenChanges, SessionEnds, serverVars
  <2> QED
    BY <2>1, Undisturbed
<1>5. CASE UNCHANGED vars
  <2>1. UNCHANGED <<sendVars, typed, received>>
    BY <1>5 DEF vars, serverVars
  <2> QED
    BY <2>1, Undisturbed
<1> QED
  BY <1>1, <1>2, <1>3, <1>4, <1>5 DEF Next

\* The initial states are initial states of the channel.
LEMMA ChannelInit == Init => Channel!Init
<1> SUFFICES ASSUME Init PROVE Channel!Init
  OBVIOUS
<1>1. sends = {} /\ kb_buf = <<>> /\ typed = 0 /\ received = <<>>
  BY DEF Init
<1>2. OnTheWay = <<>>
  BY <1>1 DEF OnTheWay
<1> QED
  BY <1>1, <1>2 DEF Channel!Init

\* No key overtakes another and none arrives twice, whatever requests fail and
\* however their answers interleave with typing, opening and closing: the page
\* and the server implement the channel.
THEOREM KeysStayInOrder == Spec => KeysInOrder
<1>1. Init => KInv /\ Channel!Init
  BY SendsInit, ChannelInit
<1>2. KInv /\ [Next]_vars => KInv' /\ [Channel!Next]_Channel!channel
  BY ChannelStep DEF Channel!channel, Waiting
<1> QED
  BY <1>1, <1>2, PTL DEF Spec, KeysInOrder, Channel!Spec

-----------------------------------------------------------------------------
\* maybe_send leaves keys in the buffer only if a request is under way.
LEMMA MaybeSentAll ==
  ASSUME NEW isOpen, NEW buf, MaybeSend(isOpen, buf)
  PROVE  isOpen /\ kb_buf' # <<>> => send_in_progress'
BY DEF MaybeSend, Send, NoSend

\* Every step preserves NothingForgotten.
LEMMA ForgottenStep == NothingForgotten /\ [Next]_vars => NothingForgotten'
<1> SUFFICES ASSUME NothingForgotten, [Next]_vars
             PROVE  NothingForgotten'
  OBVIOUS
<1>1. CASE Input
  <2>1. PICK n : ProcessKey(n)
    BY <1>1 DEF Input, Press, Paste
  <2>2. open' = open /\ \E buf : MaybeSend(open, buf)
    BY <2>1 DEF ProcessKey, pageVars
  <2> QED
    BY <2>2, MaybeSentAll DEF NothingForgotten
<1>2. CASE Network
  <2>1. ASSUME NEW r \in sends, ServeSend(r) \/ SendLost(r)
        PROVE  NothingForgotten'
    BY <2>1 DEF ServeSend, SendLost, pageVars, NothingForgotten
  <2>2. ASSUME NEW r \in sends, SendDone(r)
        PROVE  NothingForgotten'
    <3>1. CASE r.answer \in {"E", "status"}
      BY <2>2, <3>1 DEF SendDone, NothingForgotten
    <3>2. CASE r.answer \notin {"E", "status"}
      BY <2>2, <3>2 DEF SendDone, NothingForgotten
    <3> QED
      BY <3>1, <3>2
  <2>3. ASSUME NEW r \in rcvs, ServeRcv(r) \/ RcvLost(r) \/ Rcv(r)
        PROVE  NothingForgotten'
    BY <2>3 DEF ServeRcv, RcvLost, Rcv, pageVars, sendVars, NothingForgotten
  <2> QED
    BY <1>2, <2>1, <2>2, <2>3 DEF Network
<1>3. CASE OpenTerm
  BY <1>3, MaybeSentAll DEF OpenTerm, NothingForgotten
<1>4. CASE CreateTerm \/ OpenFails \/ CloseDone \/ ScreenChanges \/ SessionEnds
  BY <1>4 DEF CreateTerm, OpenFails, CloseDone, ScreenChanges, SessionEnds,
              pageVars, sendVars, NothingForgotten
<1>5. CASE CloseTerm
  BY <1>5 DEF CloseTerm, NothingForgotten
<1>6. CASE UNCHANGED vars
  BY <1>6 DEF vars, pageVars, sendVars, NothingForgotten
<1> QED
  BY <1>1, <1>2, <1>3, <1>4, <1>5, <1>6 DEF Next

\* Keys in the buffer of an open terminal are never left without a request whose
\* answer sends them, unless the user was shown an error (maybe_send, send_done).
THEOREM KeysAreNotForgotten == Spec => []NothingForgotten
<1>1. Init => NothingForgotten
  BY DEF Init, NothingForgotten
<1>2. NothingForgotten /\ [Next]_vars => NothingForgotten'
  BY ForgottenStep
<1> QED
  BY <1>1, <1>2, PTL DEF Spec

-----------------------------------------------------------------------------
(***************************************************************************)
(* Edit scripts.  What a script of any length makes of a text is the end   *)
(* of its only trace; a script the server may send makes its text.         *)
(***************************************************************************)
Start == [dp |-> 0, ndisp |-> <<>>]

Trace(f, s, old) ==
  f = [i \in 0..Len(s) |-> IF i = 0 THEN Start ELSE DoCommand(f[i - 1], s[i], old)]

\* After the commands of s the page has the state a.
Leads(s, old, a) == \E f : Trace(f, s, old) /\ f[Len(s)] = a

\* A set of numbers has a least one.
LEMMA LeastNumber ==
  ASSUME NEW S \in SUBSET Nat, S # {}
  PROVE  \E x \in S : \A y \in S : x <= y
<1>1. PICK x \in S : \A y \in S : ~(<<y, x>> \in OpToRel(<, Nat))
  BY WFMin, NatLessThanWellFounded
<1>2. ASSUME NEW y \in S PROVE x <= y
  <2>1. x \in Nat /\ y \in Nat /\ <<y, x>> \in Nat \X Nat
    OBVIOUS
  <2>2. ~(<<y, x>>[1] < <<y, x>>[2])
    BY <1>1, <2>1 DEF OpToRel
  <2> QED BY <2>1, <2>2
<1> QED BY <1>2

\* A script has one trace: two could only part at some first command.
LEMMA OneTrace ==
  ASSUME NEW S, NEW s \in Seq(S), NEW old, NEW f, NEW g, Trace(f, s, old), Trace(g, s, old)
  PROVE  f = g
<1> DEFINE D == {i \in 0..Len(s) : f[i] # g[i]}
<1>1. Len(s) \in Nat /\ D \in SUBSET Nat
  OBVIOUS
<1>2. /\ \A i \in 0..Len(s) : f[i] = IF i = 0 THEN Start ELSE DoCommand(f[i - 1], s[i], old)
      /\ \A i \in 0..Len(s) : g[i] = IF i = 0 THEN Start ELSE DoCommand(g[i - 1], s[i], old)
  BY DEF Trace
<1>3. D = {}
  <2> SUFFICES ASSUME D # {} PROVE FALSE
    OBVIOUS
  <2> HIDE DEF D
  <2>1. PICK i \in D : \A j \in D : i <= j
    BY <1>1, LeastNumber
  <2>2. i \in 0..Len(s) /\ f[i] # g[i]
    BY DEF D
  <2>3. i # 0
    BY <1>2, <2>2
  <2>4. i - 1 \in 0..Len(s) /\ ~(i <= i - 1)
    BY <1>1, <2>2, <2>3
  <2>5. f[i - 1] = g[i - 1]
    BY <2>1, <2>4 DEF D
  <2> QED
    BY <1>2, <2>2, <2>3, <2>5
<1>4. \A i \in 0..Len(s) : f[i] = g[i]
  BY <1>3
<1>5. /\ f = [i \in 0..Len(s) |-> f[i]]
      /\ g = [i \in 0..Len(s) |-> g[i]]
  BY DEF Trace
<1> HIDE DEF D
<1> QED
  BY <1>4, <1>5

\* The text of the page is that of the trace's end.
LEMMA TextOf ==
  ASSUME NEW S, NEW s \in Seq(S), NEW old, NEW a, Leads(s, old, a)
  PROVE  ProcessEditscript(s, old) = a.ndisp
<1> DEFINE after == CHOOSE f : Trace(f, s, old)
<1>1. ProcessEditscript(s, old) = after[Len(s)].ndisp
  BY DEF ProcessEditscript, Trace, Start
<1>2. PICK f : Trace(f, s, old) /\ f[Len(s)] = a
  BY DEF Leads
<1>3. Trace(after, s, old)
  BY <1>2
<1> HIDE DEF after
<1>4. after = f
  BY <1>2, <1>3, OneTrace
<1> QED
  BY <1>1, <1>2, <1>4

\* Without commands the page is where it starts.
LEMMA NothingDone == ASSUME NEW old PROVE Leads(<<>>, old, Start)
<1> DEFINE f == [i \in 0..0 |-> Start]
<1>1. Len(<<>>) = 0 /\ \A i \in 0..0 : i = 0
  OBVIOUS
<1>2. Trace(f, <<>>, old)
  BY <1>1 DEF Trace
<1> QED
  BY <1>1, <1>2 DEF Leads

\* One command more.
LEMMA CommandDone ==
  ASSUME NEW S, NEW s \in Seq(S), NEW c \in S, NEW old, NEW a, Leads(s, old, a)
  PROVE  Leads(s \o <<c>>, old, DoCommand(a, c, old))
<1> DEFINE t == s \o <<c>>
           n == Len(s)
<1>1. PICK f : Trace(f, s, old) /\ f[n] = a
  BY DEF Leads
<1> DEFINE g == [i \in 0..(n + 1) |-> IF i = n + 1 THEN DoCommand(a, c, old) ELSE f[i]]
<1>2. /\ n \in Nat /\ Len(t) = n + 1 /\ t[n + 1] = c
      /\ \A i \in 1..n : t[i] = s[i]
  <2>1. <<c>> \in Seq(S) /\ Len(<<c>>) = 1 /\ <<c>>[1] = c
    OBVIOUS
  <2>2. /\ Len(t) = Len(s) + Len(<<c>>)
        /\ \A i \in 1..Len(s) + Len(<<c>>) : t[i] = IF i <= Len(s) THEN s[i] ELSE <<c>>[i - Len(s)]
    BY <2>1, ConcatProperties
  <2>3. n \in Nat
    OBVIOUS
  <2>4. n + 1 \in 1..Len(s) + Len(<<c>>) /\ ~(n + 1 <= n) /\ n + 1 - n = 1
    BY <2>1, <2>3
  <2> HIDE DEF t
  <2> QED
    BY <2>1, <2>2, <2>3, <2>4
<1> HIDE DEF t
<1>3. \A i \in 0..n : f[i] = IF i = 0 THEN Start ELSE DoCommand(f[i - 1], s[i], old)
  BY <1>1 DEF Trace
<1>4. ASSUME NEW i \in 0..(n + 1)
      PROVE  g[i] = IF i = 0 THEN Start ELSE DoCommand(g[i - 1], t[i], old)
  <2>1. CASE i = n + 1
    <3>1. i # 0 /\ i - 1 = n /\ n \in 0..(n + 1) /\ n # n + 1
      BY <1>2, <2>1
    <3>2. g[i - 1] = a /\ g[i] = DoCommand(a, c, old)
      BY <1>1, <3>1, <2>1
    <3> QED
      BY <1>2, <2>1, <3>1, <3>2
  <2>2. CASE i = 0
    BY <1>2, <1>3, <2>2
  <2>3. CASE i \in 1..n
    <3>1. i - 1 \in 0..(n + 1) /\ i - 1 # n + 1 /\ i # n + 1 /\ i # 0 /\ i \in 0..n
      BY <1>2, <2>3
    <3>2. g[i - 1] = f[i - 1] /\ g[i] = f[i]
      BY <3>1
    <3> QED
      BY <1>2, <1>3, <2>3, <3>1, <3>2
  <2> QED
    BY <1>2, <2>1, <2>2, <2>3
<1>5. g[n + 1] = DoCommand(a, c, old) /\ g = [i \in 0..(n + 1) |-> g[i]]
  BY <1>2
<1> HIDE DEF g
<1>6. Trace(g, t, old)
  <2>1. g = [i \in 0..(n + 1) |-> IF i = 0 THEN Start ELSE DoCommand(g[i - 1], t[i], old)]
    BY <1>4, <1>5
  <2> QED
    BY <1>2, <2>1 DEF Trace
<1> QED
  BY <1>2, <1>5, <1>6 DEF Leads, t

\* A command that the server leaves out where it would do nothing.
LEMMA CommandOrNone ==
  ASSUME NEW S, NEW s \in Seq(S), NEW c \in S, NEW old, NEW a, Leads(s, old, a),
         NEW p \in {<<>>, <<c>>}, p = <<>> => DoCommand(a, c, old) = a
  PROVE  s \o p \in Seq(S) /\ Leads(s \o p, old, DoCommand(a, c, old))
<1>1. CASE p = <<>>
  BY <1>1, ConcatEmptySeq
<1>2. CASE p = <<c>>
  <2>1. <<c>> \in Seq(S)
    OBVIOUS
  <2> QED
    BY <1>2, <2>1, ConcatProperties, CommandDone
<1> QED
  BY <1>1, <1>2

\* The texts of the screen.
LEMMA ScreenIs ==
  ASSUME NEW s
  PROVE  s \in Screens <=> s \in Seq(Chars) /\ Len(s) <= MaxScreen
<1>1. MaxScreen \in Nat
  BY ConsoleAssumption
<1>2. ASSUME s \in Screens PROVE s \in Seq(Chars) /\ Len(s) <= MaxScreen
  <2>1. PICK n \in 0..MaxScreen : s \in [1..n -> Chars]
    BY <1>2 DEF Screens
  <2> QED
    BY <1>1, <2>1
<1>3. ASSUME s \in Seq(Chars), Len(s) <= MaxScreen PROVE s \in Screens
  <2>1. Len(s) \in 0..MaxScreen /\ s \in [1..Len(s) -> Chars]
    BY <1>1, <1>3, LenProperties
  <2> QED
    BY <2>1 DEF Screens
<1> QED
  BY <1>2, <1>3

\* A part of a text is a text, and the commands about it are commands.
LEMMA PartOfScreen ==
  ASSUME NEW s \in Screens, NEW i \in Nat, NEW j \in 0..Len(s)
  PROVE  SubSeq(s, i + 1, j) \in Screens
<1>1. s \in Seq(Chars) /\ Len(s) <= MaxScreen /\ Len(s) \in Nat
  BY ScreenIs, LenProperties
<1>2. \A k \in (i + 1)..j : s[k] \in Chars
  BY <1>1, ElementOfSeq
<1>3. /\ SubSeq(s, i + 1, j) \in Seq(Chars)
      /\ Len(SubSeq(s, i + 1, j)) = IF i + 1 <= j THEN j - (i + 1) + 1 ELSE 0
  BY <1>2, SubSeqProperties
<1>4. Len(SubSeq(s, i + 1, j)) <= MaxScreen
  <2>1. MaxScreen \in Nat
    BY ConsoleAssumption
  <2>2. (IF i + 1 <= j THEN j - (i + 1) + 1 ELSE 0) <= Len(s)
    BY <1>1
  <2> QED
    BY <1>1, <1>3, <2>1, <2>2
<1> QED
  BY <1>3, <1>4, ScreenIs

\* What the page makes of a script the server may send: the text the server
\* has, if it showed the text the server thinks it does.
LEMMA ScriptFits ==
  ASSUME NEW old \in Screens, NEW new \in Screens, NEW s \in Scripts(old, new)
  PROVE  s \in Seq(Command) /\ ProcessEditscript(s, old) = new
<1> DEFINE Kept(n) == IF n = 0 THEN <<>> ELSE <<[cmd |-> "k", num |-> n]>>
           Dropped(gone) == IF gone = 0 THEN <<>> ELSE <<[cmd |-> "d", num |-> gone]>>
           Inserted(text) == IF text = <<>> THEN <<>> ELSE <<[cmd |-> "i", text |-> text]>>
           Gone(b, e) == Len(old) - b - e
           Text(b, e) == SubSeq(new, b + 1, Len(new) - e)
<1>1. PICK b \in 0..MaxScreen, e \in 0..MaxScreen :
        /\ b + e <= Len(old) /\ b + e <= Len(new)
        /\ SubSeq(old, 1, b) = SubSeq(new, 1, b)
        /\ SubSeq(old, Len(old) - e + 1, Len(old)) = SubSeq(new, Len(new) - e + 1, Len(new))
        /\ s = Kept(b) \o (Dropped(Gone(b, e)) \o Inserted(Text(b, e))) \o Kept(e)
  BY DEF Scripts
<1> DEFINE lo == Len(old)
           ln == Len(new)
           gone == lo - b - e
           text == SubSeq(new, b + 1, ln - e)
           kb == [cmd |-> "k", num |-> b]
           dc == [cmd |-> "d", num |-> gone]
           ic == [cmd |-> "i", text |-> text]
           ke == [cmd |-> "k", num |-> e]
<1>2. /\ old \in Seq(Chars) /\ lo <= MaxScreen /\ lo \in Nat /\ MaxScreen \in Nat
      /\ new \in Seq(Chars) /\ ln <= MaxScreen /\ ln \in Nat /\ b \in Nat /\ e \in Nat
  <2>1. old \in Seq(Chars) /\ lo <= MaxScreen /\ new \in Seq(Chars) /\ ln <= MaxScreen
    BY ScreenIs
  <2>2. MaxScreen \in Nat
    BY ConsoleAssumption
  <2> QED
    BY <2>1, <2>2, LenProperties
<1>3. /\ gone \in 0..MaxScreen /\ b + gone = lo - e
      /\ lo - e \in 0..lo /\ ln - e \in b..ln /\ b \in 0..lo
  BY <1>1, <1>2
<1>4. text \in Screens
  BY <1>2, <1>3, PartOfScreen
<1>5. kb \in Command /\ dc \in Command /\ ic \in Command /\ ke \in Command
  BY <1>3, <1>4 DEF Command
<1> DEFINE front == SubSeq(old, 1, b)
           back == SubSeq(old, lo - e + 1, lo)
           a1 == [dp |-> b, ndisp |-> front]
           a2 == [dp |-> lo - e, ndisp |-> front]
           a3 == [dp |-> lo - e, ndisp |-> front \o text]
           a4 == [dp |-> lo - e + e, ndisp |-> (front \o text) \o back]
<1>6. front \in Seq(Chars) /\ back \in Seq(Chars) /\ text \in Seq(Chars)
  <2>1. 0 \in Nat /\ b \in 0..lo /\ lo - e \in Nat /\ lo \in 0..lo /\ 0 + 1 = 1
    BY <1>2, <1>3
  <2>2. SubSeq(old, 0 + 1, b) \in Screens /\ back \in Screens
    BY <2>1, PartOfScreen
  <2> QED
    BY <2>1, <2>2, <1>4, ScreenIs
<1>7. Substr(old, 0, b) = front /\ Substr(old, lo - e, e) = back
  <2>1. /\ 0 + 1 = 1 /\ (IF 0 + b < lo THEN 0 + b ELSE lo) = b
        /\ (IF lo - e + e < lo THEN lo - e + e ELSE lo) = lo
    BY <1>1, <1>2
  <2> QED
    BY <2>1 DEF Substr
<1>t. \A x \in Seq(Chars) : x \o <<>> = x /\ <<>> \o x = x
  BY ConcatEmptySeq
<1> HIDE DEF text
<1>8. DoCommand(Start, kb, old) = a1
  <2>1. DoCommand(Start, kb, old) = [dp |-> 0 + b, ndisp |-> <<>> \o Substr(old, 0, b)]
    BY DEF DoCommand, Start
  <2> QED
    BY <2>1, <1>2, <1>6, <1>7, <1>t
<1>9. DoCommand(a1, dc, old) = a2
  <2>1. DoCommand(a1, dc, old) = [a1 EXCEPT !.dp = @ + gone]
    BY DEF DoCommand
  <2> QED
    BY <2>1, <1>3
<1>10. DoCommand(a2, ic, old) = a3
  BY DEF DoCommand
<1>11. DoCommand(a3, ke, old) = a4
  <2>1. DoCommand(a3, ke, old) = [dp |-> a3.dp + e, ndisp |-> a3.ndisp \o Substr(old, a3.dp, e)]
    BY DEF DoCommand
  <2> QED
    BY <2>1, <1>7
<1>12. /\ b = 0 => a1 = Start
       /\ gone = 0 => a2 = a1
       /\ text = <<>> => a3 = a2
       /\ e = 0 => a4 = a3
  <2>1. b = 0 => front = <<>>
    BY SubSeqEmpty
  <2>2. e = 0 => back = <<>>
    BY <1>2, SubSeqEmpty
  <2>3. front \o text \in Seq(Chars)
    BY <1>6, ConcatProperties
  <2>4. gone = 0 => lo - e = b
    BY <1>2
  <2>5. e = 0 => lo - e + e = lo - e
    BY <1>2
  <2> HIDE DEF front, back, gone
  <2> QED
    BY <2>1, <2>2, <2>3, <2>4, <2>5, <1>6, <1>t DEF Start
<1> DEFINE p1 == Kept(b)
           p2 == Dropped(gone)
           p3 == Inserted(text)
           p4 == Kept(e)
<1>13. p1 \in {<<>>, <<kb>>} /\ p2 \in {<<>>, <<dc>>} /\ p3 \in {<<>>, <<ic>>} /\ p4 \in {<<>>, <<ke>>}
  OBVIOUS
<1>14. /\ p1 = <<>> => b = 0
       /\ p2 = <<>> => gone = 0
       /\ p3 = <<>> => text = <<>>
       /\ p4 = <<>> => e = 0
  OBVIOUS
<1>15. s = p1 \o (p2 \o p3) \o p4
  BY <1>1 DEF text
<1> HIDE DEF p1, p2, p3, p4, kb, dc, ic, ke, a1, a2, a3, a4
<1>16. <<>> \in Seq(Command) /\ Leads(<<>>, old, Start)
  BY NothingDone
<1>17. <<>> \o p1 \in Seq(Command) /\ Leads(<<>> \o p1, old, a1)
  BY <1>16, <1>5, <1>8, <1>12, <1>13, <1>14, CommandOrNone
<1>18. (<<>> \o p1) \o p2 \in Seq(Command) /\ Leads((<<>> \o p1) \o p2, old, a2)
  BY <1>17, <1>5, <1>9, <1>12, <1>13, <1>14, CommandOrNone
<1>19. ((<<>> \o p1) \o p2) \o p3 \in Seq(Command) /\ Leads(((<<>> \o p1) \o p2) \o p3, old, a3)
  BY <1>18, <1>5, <1>10, <1>12, <1>13, <1>14, CommandOrNone
<1>20. /\ (((<<>> \o p1) \o p2) \o p3) \o p4 \in Seq(Command)
       /\ Leads((((<<>> \o p1) \o p2) \o p3) \o p4, old, a4)
  BY <1>19, <1>5, <1>11, <1>12, <1>13, <1>14, CommandOrNone
<1>21. s = (((<<>> \o p1) \o p2) \o p3) \o p4
  <2>1. p1 \in Seq(Command) /\ p2 \in Seq(Command) /\ p3 \in Seq(Command)
    <3>1. \A c \in Command : {<<>>, <<c>>} \subseteq Seq(Command)
      OBVIOUS
    <3> QED
      BY <1>5, <1>13, <3>1
  <2>2. <<>> \o p1 = p1
    BY <2>1, ConcatEmptySeq
  <2>3. (p1 \o p2) \o p3 = p1 \o (p2 \o p3)
    BY <2>1, ConcatAssociative
  <2> QED
    BY <1>15, <2>2, <2>3
<1>22. ProcessEditscript(s, old) = a4.ndisp
  BY <1>20, <1>21, TextOf
<1>23. a4.ndisp = new
  <2>1. a4.ndisp = (SubSeq(new, 1, b) \o SubSeq(new, b + 1, ln - e)) \o SubSeq(new, ln - e + 1, ln)
    BY <1>1 DEF a4, text
  <2>2. SubSeq(new, 1, b) \o SubSeq(new, b + 1, ln - e) = SubSeq(new, 1, ln - e)
    <3>1. 1 \in 1..Len(new) + 1 /\ b \in (1 - 1)..Len(new) /\ ln - e \in b..Len(new)
      BY <1>2, <1>3
    <3> QED
      BY <1>2, <3>1, ConcatAdjacentSubSeq
  <2>3. SubSeq(new, 1, ln - e) \o SubSeq(new, ln - e + 1, ln) = SubSeq(new, 1, ln)
    <3>1. 1 \in 1..Len(new) + 1 /\ ln - e \in (1 - 1)..Len(new) /\ ln \in (ln - e)..Len(new)
      BY <1>2, <1>3
    <3> QED
      BY <1>2, <3>1, ConcatAdjacentSubSeq
  <2> QED
    BY <2>1, <2>2, <2>3, <1>2, SubSeqFull
<1> QED
  BY <1>20, <1>21, <1>22, <1>23

-----------------------------------------------------------------------------
(***************************************************************************)
(* Types, and the screen: at most one poll is under way, and its answer    *)
(* makes of the text shown what the server believes is shown.              *)
(***************************************************************************)
PageTypes ==
  /\ phase \in {"fresh", "opening", "running", "closing", "closed"}
  /\ open \in BOOLEAN /\ controls \in BOOLEAN
  /\ send_in_progress \in BOOLEAN /\ refused \in BOOLEAN
  /\ session \in {"none", "up", "over"}
  /\ changes \in 0..MaxChanges /\ failures \in 0..MaxFailures

TypedKeys == Seq(1..MaxKeys)

BatchFits(r) == /\ DOMAIN r = {"keys", "answer"} /\ r.keys \in TypedKeys
                /\ r.answer \in {None, "ok", "E", "", "status"}

KeyTypes ==
  /\ typed \in 0..MaxKeys /\ kb_buf \in TypedKeys /\ received \in TypedKeys
  /\ \A r \in sends : BatchFits(r)

Errors == {"E", "", "status"}

PollFits(r) ==
  /\ DOMAIN r = {"answer"}
  /\ IF r.answer = None THEN disp = sent
     ELSE /\ r.answer \in Answer
          /\ r.answer.kind \notin Errors => Display(r.answer, disp) = sent

ScreensFit ==
  /\ disp \in Screens /\ screen \in Screens /\ sent \in Screens
  /\ \A r \in rcvs : PollFits(r)
  /\ \A r, q \in rcvs : r = q

\* Before the session is open nothing is asked, and none is opened twice.
NotOpenYet == phase \in {"fresh", "opening"} => rcvs = {} /\ disp = sent /\ ~open

\* Without a failure the receive loop goes on as long as the terminal is open.
LoopGoesOn ==
  /\ open => phase = "running"
  /\ open /\ failures = 0 =>
       /\ session = "up" /\ rcvs # {}
       /\ \A r \in rcvs : r.answer = None \/ r.answer.kind \notin Errors

ConsoleInv == PageTypes /\ KeyTypes /\ ScreensFit /\ NotOpenYet /\ LoopGoesOn

\* The invariant has what the properties say.
LEMMA ConsoleInvImplies == ConsoleInv => TypeOK /\ ScreenAgrees
<1> SUFFICES ASSUME ConsoleInv PROVE TypeOK /\ ScreenAgrees
  OBVIOUS
<1>1. TypeOK
  BY DEF ConsoleInv, PageTypes, KeyTypes, ScreensFit, TypedKeys, BatchFits, PollFits, TypeOK
<1>2. ScreenAgrees
  BY DEF ConsoleInv, ScreensFit, LoopGoesOn, PollFits, ScreenAgrees
<1> QED
  BY <1>1, <1>2

\* Initially nothing is typed, sent or shown.
LEMMA ConsoleInit == Init => ConsoleInv
<1> SUFFICES ASSUME Init PROVE ConsoleInv
  OBVIOUS
<1>1. MaxKeys \in Nat /\ MaxChanges \in Nat /\ MaxFailures \in Nat /\ MaxScreen \in Nat
  BY ConsoleAssumption
<1>2. <<>> \in TypedKeys
  BY DEF TypedKeys
<1>3. <<>> \in Screens
  <2>1. <<>> \in Seq(Chars) /\ Len(<<>>) <= MaxScreen
    BY <1>1
  <2> QED
    BY <2>1, ScreenIs
<1>4. PageTypes
  <2>1. changes \in 0..MaxChanges /\ failures \in 0..MaxFailures
    BY <1>1 DEF Init
  <2> QED
    BY <2>1 DEF Init, PageTypes
<1>5. KeyTypes
  BY <1>1, <1>2 DEF Init, KeyTypes
<1>6. ScreensFit /\ NotOpenYet /\ LoopGoesOn
  BY <1>3 DEF Init, ScreensFit, NotOpenYet, LoopGoesOn
<1> QED
  BY <1>4, <1>5, <1>6 DEF ConsoleInv

\* The state of the page and the counters.
LEMMA PageStep == PageTypes /\ [Next]_vars => PageTypes'
<1> SUFFICES ASSUME PageTypes, [Next]_vars PROVE PageTypes'
  OBVIOUS
<1>0. MaxChanges \in Nat /\ MaxFailures \in Nat
  BY ConsoleAssumption
<1>1. ASSUME NEW isOpen, NEW buf, MaybeSend(isOpen, buf)
      PROVE  send_in_progress' \in BOOLEAN /\ refused' \in BOOLEAN
  BY <1>1 DEF MaybeSend, Send, NoSend, PageTypes
<1>2. CASE Input
  <2>1. /\ \E buf : MaybeSend(open, buf)
        /\ UNCHANGED <<phase, open, controls, session, changes, failures>>
    BY <1>2 DEF Input, Press, Paste, ProcessKey, pageVars, serverVars
  <2> QED
    BY <2>1, <1>1 DEF PageTypes
<1>3. ASSUME NEW r \in sends, ServeSend(r) \/ SendLost(r) \/ SendDone(r) PROVE PageTypes'
  <2>1. /\ UNCHANGED <<phase, open, controls, session, changes>>
        /\ failures' = failures \/ (failures < MaxFailures /\ failures' = failures + 1)
    BY <1>3 DEF ServeSend, SendLost, SendDone, pageVars, serverVars
  <2>2. send_in_progress' \in BOOLEAN /\ refused' \in BOOLEAN
    <3>1. CASE ServeSend(r) \/ SendLost(r)
      BY <3>1 DEF ServeSend, SendLost, PageTypes
    <3>2. CASE SendDone(r)
      <4>1. \E b \in BOOLEAN : send_in_progress' = b
        BY <3>2, Zenon DEF SendDone
      <4>2. \E b \in BOOLEAN : refused' = b
        <5>1. refused' = (r.answer \in {"E", "status"})
          BY <3>2 DEF SendDone
        <5>2. refused' = TRUE \/ refused' = FALSE
          BY <5>1
        <5> QED
          BY <5>2
      <4> QED
        BY <4>1, <4>2
    <3> QED
      BY <1>3, <3>1, <3>2
  <2>3. failures' \in 0..MaxFailures
    BY <1>0, <2>1 DEF PageTypes
  <2> QED
    BY <2>1, <2>2, <2>3 DEF PageTypes
<1>4. ASSUME NEW r \in rcvs, ServeRcv(r) \/ RcvLost(r) \/ Rcv(r) PROVE PageTypes'
  <2>1. /\ UNCHANGED <<phase, open, controls, send_in_progress, refused, session, changes>>
        /\ failures' = failures \/ (failures < MaxFailures /\ failures' = failures + 1)
    BY <1>4 DEF ServeRcv, RcvLost, Rcv, pageVars, sendVars, serverVars
  <2> QED
    BY <1>0, <2>1 DEF PageTypes
<1>5. CASE OpenTerm
  <2>1. /\ MaybeSend(TRUE, kb_buf) /\ phase' = "running" /\ open' = TRUE /\ session' = "up"
        /\ UNCHANGED <<controls, changes, failures>>
    BY <1>5 DEF OpenTerm
  <2> QED
    BY <2>1, <1>1 DEF PageTypes
<1>6. CASE CreateTerm \/ OpenFails \/ CloseTerm \/ CloseDone
  <2>1. /\ UNCHANGED <<send_in_progress, refused, changes>>
        /\ failures' = failures \/ (failures < MaxFailures /\ failures' = failures + 1)
    BY <1>6 DEF CreateTerm, OpenFails, CloseTerm, CloseDone, sendVars, serverVars
  <2>2. /\ phase' \in {"opening", "running", "closing", "closed"}
        /\ open' \in {open, FALSE} /\ controls' \in {controls, TRUE, FALSE}
        /\ session' \in {session, "over"}
    BY <1>6 DEF CreateTerm, OpenFails, CloseTerm, CloseDone, serverVars
  <2>3. failures' \in 0..MaxFailures
    BY <1>0, <2>1 DEF PageTypes
  <2> QED
    BY <2>1, <2>2, <2>3 DEF PageTypes
<1>7. CASE ScreenChanges \/ SessionEnds
  BY <1>0, <1>7 DEF ScreenChanges, SessionEnds, PageTypes, pageVars, sendVars
<1>8. CASE UNCHANGED vars
  BY <1>8 DEF vars, PageTypes, pageVars, sendVars, serverVars
<1> QED
  BY <1>2, <1>3, <1>4, <1>5, <1>6, <1>7, <1>8 DEF Next, Network

\* Buffers and batches are made of keys that were typed.
LEMMA KeysSent ==
  ASSUME KeyTypes, NEW isOpen, NEW buf \in TypedKeys, MaybeSend(isOpen, buf),
         UNCHANGED received, typed' \in 0..MaxKeys
  PROVE  KeyTypes'
<1> DEFINE q == [keys |-> buf, answer |-> None]
<1>1. BatchFits(q) /\ <<>> \in TypedKeys
  BY DEF BatchFits, TypedKeys
<1>2. CASE Send(buf)
  <2>1. sends' = sends \cup {q} /\ kb_buf' = <<>>
    BY <1>2 DEF Send
  <2> HIDE DEF q
  <2> QED
    BY <1>1, <2>1 DEF KeyTypes, BatchFits
<1>3. CASE NoSend(buf)
  BY <1>3 DEF NoSend, KeyTypes, BatchFits
<1> QED
  BY <1>2, <1>3 DEF MaybeSend

\* Every step keeps the keys in the buffers among those that may be typed.
LEMMA KeysStep == KeyTypes /\ [Next]_vars => KeyTypes'
<1> SUFFICES ASSUME KeyTypes, [Next]_vars PROVE KeyTypes'
  OBVIOUS
<1>0. MaxKeys \in Nat /\ \A k, l \in TypedKeys : k \o l \in TypedKeys
  <2>1. MaxKeys \in Nat
    BY ConsoleAssumption
  <2> QED
    BY <2>1, ConcatProperties DEF TypedKeys
<1>1. ASSUME UNCHANGED <<typed, kb_buf, received, sends>> PROVE KeyTypes'
  BY <1>1 DEF KeyTypes, BatchFits
<1>2. CASE Input
  <2>1. PICK n \in Nat : ProcessKey(n)
    <3>1. MaxBatch \in Nat
      BY ConsoleAssumption
    <3> QED
      BY <1>2, <3>1 DEF Input, Press, Paste
  <2> DEFINE new == [i \in 1..n |-> typed + i]
  <2>2. /\ typed + n <= MaxKeys /\ typed' = typed + n
        /\ MaybeSend(open, kb_buf \o new) /\ UNCHANGED received
    BY <2>1 DEF ProcessKey, serverVars
  <2>3. typed \in 0..MaxKeys /\ typed' \in 0..MaxKeys
    BY <1>0, <2>2 DEF KeyTypes
  <2>4. new \in TypedKeys
    <3>1. \A i \in 1..n : typed + i \in 1..MaxKeys
      BY <1>0, <2>2, <2>3
    <3> QED
      BY <3>1 DEF TypedKeys
  <2> HIDE DEF new
  <2>5. kb_buf \o new \in TypedKeys
    BY <1>0, <2>4 DEF KeyTypes
  <2> QED
    BY <2>2, <2>3, <2>5, KeysSent
<1>3. ASSUME NEW r \in sends, ServeSend(r) \/ SendLost(r) PROVE KeyTypes'
  <2>1. /\ UNCHANGED <<typed, kb_buf>> /\ received' \in {received, received \o r.keys}
        /\ \E a \in {"ok", "E", "", "status"} :
             sends' = (sends \ {r}) \cup {[r EXCEPT !.answer = a]}
    <3>1. CASE SendLost(r)
      BY <3>1 DEF SendLost, serverVars
    <3>2. CASE ServeSend(r) /\ session = "up"
      BY <3>2 DEF ServeSend
    <3>3. CASE ServeSend(r) /\ session # "up"
      BY <3>3 DEF ServeSend
    <3> QED
      BY <1>3, <3>1, <3>2, <3>3
  <2>2. PICK a \in {"ok", "E", "", "status"} : sends' = (sends \ {r}) \cup {[r EXCEPT !.answer = a]}
    BY <2>1
  <2>3. BatchFits(r)
    BY DEF KeyTypes
  <2>4. BatchFits([r EXCEPT !.answer = a])
    BY <2>3 DEF BatchFits
  <2>5. \A q \in sends' : BatchFits(q)
    BY <2>2, <2>4 DEF KeyTypes
  <2>6. received' \in TypedKeys
    BY <1>0, <2>1, <2>3 DEF KeyTypes, BatchFits
  <2> QED
    BY <2>1, <2>5, <2>6 DEF KeyTypes, BatchFits
<1>4. ASSUME NEW r \in sends, SendDone(r) PROVE KeyTypes'
  <2> DEFINE q == [keys |-> kb_buf, answer |-> None]
  <2>1. /\ UNCHANGED <<typed, received>> /\ sends' \subseteq sends \cup {q}
        /\ kb_buf' \in {<<>>, kb_buf}
    BY <1>4 DEF SendDone, serverVars
  <2>2. kb_buf \in TypedKeys /\ <<>> \in TypedKeys
    BY DEF KeyTypes, TypedKeys
  <2>3. BatchFits(q)
    BY <2>2 DEF BatchFits
  <2> HIDE DEF q
  <2> QED
    BY <2>1, <2>2, <2>3 DEF KeyTypes, BatchFits
<1>5. CASE OpenTerm
  <2>1. /\ MaybeSend(TRUE, kb_buf) /\ UNCHANGED <<received, typed>>
        /\ typed' \in 0..MaxKeys /\ kb_buf \in TypedKeys
    BY <1>5 DEF OpenTerm, KeyTypes
  <2> QED
    BY <2>1, KeysSent
<1>6. ASSUME NEW r \in rcvs, ServeRcv(r) \/ RcvLost(r) \/ Rcv(r) PROVE KeyTypes'
  BY <1>1, <1>6 DEF ServeRcv, RcvLost, Rcv, sendVars, serverVars
<1>7. CASE \/ CreateTerm \/ OpenFails \/ CloseTerm \/ CloseDone \/ ScreenChanges
           \/ SessionEnds \/ UNCHANGED vars
  BY <1>1, <1>7 DEF CreateTerm, OpenFails, CloseTerm, CloseDone, ScreenChanges, SessionEnds,
                    vars, sendVars, serverVars
<1> QED
  BY <1>2, <1>3, <1>4, <1>5, <1>6, <1>7 DEF Next, Network

\* The answer to a poll describes the screen to the text the server last sent.
LEMMA PollAnswered ==
  ASSUME ScreensFit, NEW r \in rcvs, ServeRcv(r)
  PROVE  /\ ScreensFit' /\ rcvs' # {} /\ disp' = disp
         /\ session = "up" => \A q \in rcvs' : q.answer = None \/ q.answer.kind \notin Errors
<1>1. /\ r.answer = None /\ disp = sent /\ DOMAIN r = {"answer"} /\ rcvs = {r}
      /\ UNCHANGED <<disp, screen>> /\ disp \in Screens /\ screen \in Screens
  BY DEF ScreensFit, PollFits, ServeRcv
<1>2. CASE session # "up"
  <2> DEFINE a == [kind |-> "E"]
  <2>1. rcvs' = {[answer |-> a]} /\ sent' = sent
    BY <1>1, <1>2 DEF ServeRcv
  <2>2. a \in Answer /\ a.kind \in Errors
    BY DEF Answer, Errors
  <2> HIDE DEF a
  <2>3. \A q \in rcvs' : PollFits(q)'
    BY <1>1, <2>1, <2>2, NullAssumption DEF PollFits
  <2>4. \A p, q \in rcvs' : p = q
    BY <2>1
  <2> QED
    BY <1>1, <1>2, <2>1, <2>3, <2>4 DEF ScreensFit
<1>3. CASE session = "up"
  <2>1. PICK a \in {[kind |-> "R", text |-> screen]}
                   \cup {[kind |-> "edit", script |-> s] : s \in Scripts(sent, screen)}
                   \cup (IF sent = screen THEN {[kind |-> "n"]} ELSE {}) :
              rcvs' = (rcvs \ {r}) \cup {[answer |-> a]}
    BY <1>3 DEF ServeRcv
  <2>2. rcvs' = {[answer |-> a]} /\ sent' = screen
    BY <1>1, <1>3, <2>1 DEF ServeRcv
  <2>3. a \in Answer /\ a.kind \notin Errors /\ Display(a, disp) = screen
    <3>1. CASE a = [kind |-> "R", text |-> screen]
      BY <1>1, <3>1 DEF Answer, Errors, Display
    <3>2. CASE a = [kind |-> "n"] /\ sent = screen
      BY <1>1, <3>2 DEF Answer, Errors, Display
    <3>3. ASSUME NEW s \in Scripts(sent, screen), a = [kind |-> "edit", script |-> s]
          PROVE  a \in Answer /\ a.kind \notin Errors /\ Display(a, disp) = screen
      <4>1. s \in Seq(Command) /\ ProcessEditscript(s, disp) = screen
        BY <1>1, ScriptFits
      <4> QED
        BY <3>3, <4>1 DEF Answer, Errors, Display
    <3> QED
      BY <2>1, <3>1, <3>2, <3>3
  <2>4. \A q \in rcvs' : PollFits(q)'
    BY <1>1, <2>2, <2>3, NullAssumption DEF PollFits
  <2>5. \A p, q \in rcvs' : p = q
    BY <2>2
  <2> QED
    BY <1>1, <2>2, <2>3, <2>4, <2>5 DEF ScreensFit
<1> QED
  BY <1>2, <1>3

\* What rcv does with the answer.
LEMMA PollHandled ==
  ASSUME ScreensFit, NEW r \in rcvs, Rcv(r)
  PROVE  /\ ScreensFit'
         /\ open /\ r.answer.kind \notin Errors =>
              rcvs' # {} /\ \A q \in rcvs' : q.answer = None
<1>1. /\ rcvs = {r} /\ PollFits(r) /\ r.answer # None
      /\ UNCHANGED <<screen, sent>> /\ disp \in Screens /\ screen \in Screens /\ sent \in Screens
  BY DEF ScreensFit, Rcv, serverVars
<1>2. CASE open /\ r.answer.kind \notin Errors
  <2>1. disp' = sent /\ rcvs' = {Poll}
    BY <1>1, <1>2 DEF Rcv, PollFits, Errors
  <2>2. DOMAIN Poll = {"answer"} /\ Poll.answer = None
    BY DEF Poll
  <2> QED
    BY <1>1, <2>1, <2>2 DEF ScreensFit, PollFits
<1>3. CASE ~(open /\ r.answer.kind \notin Errors)
  <2>1. disp' = disp /\ rcvs' = {}
    BY <1>1, <1>3 DEF Rcv, Errors
  <2> QED
    BY <1>1, <1>3, <2>1 DEF ScreensFit
<1> QED
  BY <1>2, <1>3

\* A poll that is lost.
LEMMA PollLost ==
  ASSUME ScreensFit, NEW r \in rcvs, RcvLost(r)
  PROVE  ScreensFit'
<1>1. PICK a : /\ a = [kind |-> ""] \/ a = [kind |-> "status"]
               /\ rcvs' = (rcvs \ {r}) \cup {[answer |-> a]}
  BY DEF RcvLost
<1>2. /\ UNCHANGED <<disp, screen, sent>> /\ rcvs' = {[answer |-> a]}
      /\ disp \in Screens /\ screen \in Screens /\ sent \in Screens
  BY <1>1 DEF ScreensFit, RcvLost, serverVars
<1>3. a \in Answer /\ a.kind \in Errors
  <2>1. \A k \in {"", "status"} : [kind |-> k] \in Answer /\ [kind |-> k].kind \in Errors
    BY DEF Answer, Errors
  <2> QED
    BY <1>1, <2>1
<1>4. ASSUME NEW q \in rcvs' PROVE PollFits(q)'
  <2>1. DOMAIN q = {"answer"} /\ q.answer = a /\ a # None
    BY <1>2, <1>3, NullAssumption
  <2> QED
    BY <1>3, <2>1 DEF PollFits
<1> QED
  BY <1>2, <1>4 DEF ScreensFit

\* Steps that leave the receiving half alone.
LEMMA ScreensStay ==
  ASSUME ScreensFit, UNCHANGED <<disp, rcvs, sent>>, screen' \in Screens
  PROVE  ScreensFit'
BY DEF ScreensFit, PollFits

\* Every step preserves the invariant.
LEMMA ConsoleStep == ConsoleInv /\ [Next]_vars => ConsoleInv'
<1> SUFFICES ASSUME ConsoleInv, [Next]_vars PROVE ConsoleInv'
  OBVIOUS
<1>1. PageTypes' /\ KeyTypes' /\ ScreensFit /\ NotOpenYet /\ LoopGoesOn
  BY PageStep, KeysStep DEF ConsoleInv
<1> DEFINE Rest == ScreensFit' /\ NotOpenYet' /\ LoopGoesOn'
<1>0. failures \in Nat /\ \A x \in Nat : x + 1 # 0
  <2>1. MaxFailures \in Nat
    BY ConsoleAssumption
  <2> QED
    BY <2>1 DEF ConsoleInv, PageTypes
<1>2. ASSUME UNCHANGED <<phase, open, disp, rcvs, sent, session>>, screen' \in Screens,
             failures' = failures \/ failures' # 0
      PROVE  Rest
  <2>1. ScreensFit'
    BY <1>1, <1>2, ScreensStay
  <2>2. NotOpenYet' /\ LoopGoesOn'
    BY <1>1, <1>2 DEF NotOpenYet, LoopGoesOn
  <2> QED
    BY <2>1, <2>2
<1>3. screen \in Screens
  BY <1>1 DEF ScreensFit
<1>4. ASSUME Input PROVE Rest
  <2>1. UNCHANGED <<phase, open, disp, rcvs, sent, session, screen, failures>>
    BY <1>4 DEF Input, Press, Paste, ProcessKey, pageVars, rcvVars, serverVars
  <2> QED
    BY <1>2, <1>3, <2>1, <1>1 DEF ConsoleInv
<1>5. ASSUME NEW r \in sends, ServeSend(r) \/ SendLost(r) \/ SendDone(r) PROVE Rest
  <2>1. /\ UNCHANGED <<phase, open, disp, rcvs, sent, session, screen>>
        /\ failures' = failures \/ failures' = failures + 1
    BY <1>5 DEF ServeSend, SendLost, SendDone, pageVars, rcvVars, serverVars
  <2> QED
    BY <1>0, <1>2, <1>3, <2>1
<1>6. ASSUME NEW r \in rcvs, ServeRcv(r) PROVE Rest
  <2>1. /\ ScreensFit' /\ rcvs' # {}
        /\ session = "up" => \A q \in rcvs' : q.answer = None \/ q.answer.kind \notin Errors
    BY <1>1, <1>6, PollAnswered
  <2>2. UNCHANGED <<phase, open, session, failures>>
    BY <1>6 DEF ServeRcv, pageVars
  <2> QED
    BY <1>1, <2>1, <2>2 DEF NotOpenYet, LoopGoesOn
<1>7. ASSUME NEW r \in rcvs, RcvLost(r) PROVE Rest
  <2>1. UNCHANGED <<phase, open>> /\ failures' = failures + 1 /\ ScreensFit'
    BY <1>1, <1>7, PollLost DEF RcvLost, pageVars
  <2> QED
    BY <1>0, <1>1, <2>1 DEF NotOpenYet, LoopGoesOn
<1>8. ASSUME NEW r \in rcvs, Rcv(r) PROVE Rest
  <2>1. /\ ScreensFit'
        /\ open /\ r.answer.kind \notin Errors =>
              rcvs' # {} /\ \A q \in rcvs' : q.answer = None
    BY <1>1, <1>8, PollHandled
  <2>2. UNCHANGED <<phase, open, session, failures>> /\ r.answer # None
    BY <1>8 DEF Rcv, pageVars, serverVars
  <2> QED
    BY <1>1, <2>1, <2>2 DEF NotOpenYet, LoopGoesOn
<1>9. ASSUME OpenTerm PROVE Rest
  <2>1. /\ rcvs = {} /\ disp = sent
        /\ phase' = "running" /\ open' /\ session' = "up" /\ rcvs' = {Poll}
        /\ UNCHANGED <<disp, screen, sent>>
    BY <1>1, <1>9 DEF OpenTerm, NotOpenYet
  <2>2. DOMAIN Poll = {"answer"} /\ Poll.answer = None
    BY DEF Poll
  <2>3. ScreensFit'
    BY <1>1, <2>1, <2>2 DEF ScreensFit, PollFits
  <2> QED
    BY <2>1, <2>2, <2>3 DEF NotOpenYet, LoopGoesOn
<1>10. ASSUME CreateTerm \/ OpenFails \/ CloseTerm \/ CloseDone PROVE Rest
  <2>1. UNCHANGED <<disp, rcvs, sent, screen>>
    BY <1>10 DEF CreateTerm, OpenFails, CloseTerm, CloseDone, rcvVars, serverVars
  <2>2. ScreensFit'
    BY <1>1, <1>3, <2>1, ScreensStay
  <2>3. NotOpenYet' /\ LoopGoesOn'
    BY <1>0, <1>1, <1>10, <2>1 DEF CreateTerm, OpenFails, CloseTerm, CloseDone, NotOpenYet, LoopGoesOn
  <2> QED
    BY <2>2, <2>3
<1>11. ASSUME ScreenChanges PROVE Rest
  <2>1. UNCHANGED <<phase, open, disp, rcvs, sent, session, failures>> /\ screen' \in Screens
    BY <1>11 DEF ScreenChanges, pageVars, rcvVars
  <2> QED
    BY <1>2, <2>1
<1>12. ASSUME SessionEnds PROVE Rest
  <2>1. UNCHANGED <<phase, open, disp, rcvs, sent, screen>> /\ failures' = failures + 1
    BY <1>12 DEF SessionEnds, pageVars, rcvVars
  <2>2. ScreensFit'
    BY <1>1, <1>3, <2>1, ScreensStay
  <2> QED
    BY <1>0, <1>1, <2>1, <2>2 DEF NotOpenYet, LoopGoesOn
<1>13. ASSUME UNCHANGED vars PROVE Rest
  <2>1. UNCHANGED <<phase, open, disp, rcvs, sent, session, screen, failures>>
    BY <1>13 DEF vars, pageVars, rcvVars, serverVars
  <2> QED
    BY <1>2, <1>3, <2>1
<1> HIDE DEF Rest
<1>14. Rest
  BY <1>4, <1>5, <1>6, <1>7, <1>8, <1>9, <1>10, <1>11, <1>12, <1>13 DEF Next, Network
<1> QED
  BY <1>1, <1>14 DEF ConsoleInv, Rest

\* The globals of anyterm.js have their types, for screens of any size.
THEOREM ConsoleTypeCorrect == Spec => []TypeOK
<1>1. Init => ConsoleInv
  BY ConsoleInit
<1>2. ConsoleInv /\ [Next]_vars => ConsoleInv'
  BY ConsoleStep
<1>3. ConsoleInv => TypeOK
  BY ConsoleInvImplies
<1> QED
  BY <1>1, <1>2, <1>3, PTL DEF Spec

\* An open terminal at rest shows what the server last sent, whatever scripts it
\* chose to describe the changes with: process_editscript undoes the difference.
THEOREM ScreenStaysRight == Spec => []ScreenAgrees
<1>1. Init => ConsoleInv
  BY ConsoleInit
<1>2. ConsoleInv /\ [Next]_vars => ConsoleInv'
  BY ConsoleStep
<1>3. ConsoleInv => ScreenAgrees
  BY ConsoleInvImplies
<1> QED
  BY <1>1, <1>2, <1>3, PTL DEF Spec
=============================================================================
