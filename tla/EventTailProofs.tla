-------------------------- MODULE EventTailProofs --------------------------
(* Theorems about EventTail, for any number of ids, of transactions, of    *)
(* connections and of revocations, and for batches of any size.            *)
EXTENDS EventTail, WellFoundedInduction, TLAPS

Rising(s) == \A i, j \in DOMAIN s : i < j => s[i] < s[j]

\* Ids are committed once; a reader is entitled to all that is committed.
TableInv ==
    /\ TypeOK
    /\ open \cap Committed = {}
    /\ reader => Committed \subseteq entitled

\* The rows in hand follow the position, and leave out only what was purged or
\* came late.
RowsInv ==
    /\ Rising(stream.rows)
    /\ \A r \in ToSet(stream.rows) :
         /\ r \in Committed
         /\ stream.position < r
         /\ \A e \in Committed \ ToSet(stream.rows) :
              stream.position < e /\ e < r => Late(e) \/ e \in swept
    /\ stream.pc \in {"recheck", "send"} => stream.rows # <<>>
    /\ stream.pc = "send" => ToSet(stream.rows) \subseteq entitled

\* What was received, what is under way, and the position follow each other.
ClientInv ==
    /\ Rising(client.got)
    /\ Rising(wire)
    /\ \A e \in ToSet(client.got) : e <= client.cursor /\ e \in entitled
    /\ \A e \in ToSet(wire) : client.cursor < e /\ e \in entitled
    /\ stream.pc # "closed" =>
         /\ client.cursor <= stream.position
         /\ \A e \in ToSet(wire) : e <= stream.position

\* The places the tail has passed: wherever the client may resume from, and
\* where the server reads on.
Passed == {client.cursor} \cup ToSet(wire)
            \cup (IF stream.pc = "closed" THEN {} ELSE {stream.position})

Reached(q) == q <= 0 \/ \E f \in Committed : q <= f

\* What the tail left behind it at q.
Behind(q) ==
    \A e \in Committed \cap Wanted :
        client.from < e /\ e <= q /\ e \notin ToSet(client.got) \cup ToSet(wire)
          => Late(e) \/ e \in swept

PassedInv == \A q \in Passed : Reached(q) /\ Behind(q)

TailInv == TableInv /\ RowsInv /\ ClientInv /\ PassedInv

-----------------------------------------------------------------------------
LEMMA Bounds ==
    /\ MaxId \in Nat /\ MaxConnects \in Nat /\ MaxRevokes \in Nat
    /\ MaxOpen \in Nat \ {0} /\ BatchSize \in Nat \ {0} /\ Wanted \subseteq 1..MaxId
BY TailConstants

LEMMA Heads ==
    ASSUME NEW S, NEW s \in Seq(S), s # <<>>
    PROVE  /\ Head(s) \in S /\ Head(s) \in ToSet(s) /\ Tail(s) \in Seq(S)
           /\ ToSet(s) = {Head(s)} \cup ToSet(Tail(s))
<1>1. /\ Len(s) \in Nat /\ Len(s) > 0 /\ Head(s) = s[1] /\ Head(s) \in S
      /\ Tail(s) \in Seq(S) /\ Len(Tail(s)) = Len(s) - 1
      /\ \A i \in 1..Len(Tail(s)) : Tail(s)[i] = s[i + 1]
      /\ DOMAIN s = 1..Len(s) /\ DOMAIN Tail(s) = 1..Len(Tail(s))
  OBVIOUS
<1>2. Head(s) \in ToSet(s)
  BY <1>1 DEF ToSet
<1>3. ASSUME NEW x \in ToSet(s), x # Head(s)
      PROVE  x \in ToSet(Tail(s))
  <2>1. PICK i \in 1..Len(s) : s[i] = x
    BY <1>1 DEF ToSet
  <2>2. i - 1 \in 1..Len(Tail(s)) /\ i = (i - 1) + 1
    BY <1>1, <1>3, <2>1
  <2>3. Tail(s)[i - 1] = x
    BY <1>1, <2>1, <2>2
  <2> QED BY <1>1, <2>2, <2>3 DEF ToSet
<1>4. ASSUME NEW x \in ToSet(Tail(s))
      PROVE  x \in ToSet(s)
  <2>1. PICK i \in 1..Len(Tail(s)) : Tail(s)[i] = x
    BY <1>1 DEF ToSet
  <2>2. i + 1 \in 1..Len(s) /\ s[i + 1] = x
    BY <1>1, <2>1
  <2> QED BY <1>1, <2>2 DEF ToSet
<1> QED BY <1>1, <1>2, <1>3, <1>4

(* The rest of a rising sequence rises, above its head.                    *)
LEMMA RisingTail ==
    ASSUME NEW s \in Seq(Nat), s # <<>>, Rising(s)
    PROVE  Rising(Tail(s)) /\ \A e \in ToSet(Tail(s)) : Head(s) < e
<1>1. /\ Len(s) \in Nat /\ Len(s) > 0 /\ Head(s) = s[1]
      /\ Len(Tail(s)) = Len(s) - 1
      /\ \A i \in 1..Len(Tail(s)) : Tail(s)[i] = s[i + 1] /\ i + 1 \in 1..Len(s)
      /\ DOMAIN s = 1..Len(s) /\ DOMAIN Tail(s) = 1..Len(Tail(s))
  OBVIOUS
<1>2. ASSUME NEW i \in 1..Len(Tail(s)), NEW j \in 1..Len(Tail(s)), i < j
      PROVE  Tail(s)[i] < Tail(s)[j]
  <2>1. i + 1 \in DOMAIN s /\ j + 1 \in DOMAIN s /\ i + 1 < j + 1
    BY <1>1, <1>2
  <2>2. s[i + 1] < s[j + 1]
    BY <2>1 DEF Rising
  <2> QED BY <1>1, <2>2
<1>3. ASSUME NEW i \in 1..Len(Tail(s))
      PROVE  Head(s) < Tail(s)[i]
  <2>1. 1 \in DOMAIN s /\ i + 1 \in DOMAIN s /\ 1 < i + 1
    BY <1>1
  <2>2. s[1] < s[i + 1]
    BY <2>1 DEF Rising
  <2> QED BY <1>1, <2>2
<1> QED BY <1>1, <1>2, <1>3 DEF Rising, ToSet

LEMMA Appending ==
    ASSUME NEW S, NEW s \in Seq(S), NEW e \in S
    PROVE  /\ Append(s, e) \in Seq(S) /\ Append(s, e) # <<>>
           /\ ToSet(Append(s, e)) = ToSet(s) \cup {e}
<1>1. /\ Len(s) \in Nat /\ Append(s, e) \in Seq(S) /\ Append(s, e) # <<>>
      /\ Len(Append(s, e)) = Len(s) + 1
      /\ \A i \in 1..Len(s) : Append(s, e)[i] = s[i]
      /\ Append(s, e)[Len(s) + 1] = e
      /\ DOMAIN s = 1..Len(s) /\ DOMAIN Append(s, e) = 1..(Len(s) + 1)
  OBVIOUS
<1>2. 1..(Len(s) + 1) = 1..Len(s) \cup {Len(s) + 1}
  BY <1>1
<1>3. \A x : x \in ToSet(Append(s, e)) <=> x \in ToSet(s) \cup {e}
  BY <1>1, <1>2 DEF ToSet
<1> QED BY <1>1, <1>3

LEMMA RisingAppend ==
    ASSUME NEW s \in Seq(Nat), NEW e \in Nat, Rising(s), \A x \in ToSet(s) : x < e
    PROVE  Rising(Append(s, e))
<1>1. /\ Len(s) \in Nat
      /\ \A i \in 1..Len(s) : Append(s, e)[i] = s[i] /\ s[i] \in ToSet(s)
      /\ Append(s, e)[Len(s) + 1] = e
      /\ DOMAIN s = 1..Len(s) /\ DOMAIN Append(s, e) = 1..(Len(s) + 1)
  BY DEF ToSet
<1>2. ASSUME NEW i \in 1..(Len(s) + 1), NEW j \in 1..(Len(s) + 1), i < j
      PROVE  Append(s, e)[i] < Append(s, e)[j]
  <2>1. i \in 1..Len(s)
    BY <1>1, <1>2
  <2>2. CASE j \in 1..Len(s)
    BY <1>1, <1>2, <2>1, <2>2 DEF Rising
  <2>3. CASE j = Len(s) + 1
    BY <1>1, <2>1, <2>3
  <2> QED BY <1>1, <2>2, <2>3
<1> QED BY <1>1, <1>2 DEF Rising

LEMMA Widen ==
    ASSUME NEW S, NEW T, S \subseteq T, NEW s \in Seq(S)
    PROVE  s \in Seq(T) /\ ToSet(s) \subseteq S
<1>1. DOMAIN s = 1..Len(s) /\ \A i \in 1..Len(s) : s[i] \in S
  OBVIOUS
<1> QED BY <1>1 DEF ToSet

\* Where the variables range.
LEMMA Typed ==
    ASSUME TypeOK
    PROVE  /\ last \in Nat /\ Committed \subseteq 1..last /\ 1..last \subseteq Ids /\ Ids \subseteq Nat
           /\ ToSet(wire) \subseteq Committed /\ wire \in Seq(Nat)
           /\ ToSet(stream.rows) \subseteq Ids /\ stream.rows \in Seq(Nat)
           /\ ToSet(client.got) \subseteq Ids /\ client.got \in Seq(Nat)
           /\ stream.position \in 0..MaxId /\ client.cursor \in -1..MaxId
           /\ client.from \in -1..MaxId /\ stream.position \in Nat
<1>1. last \in Nat /\ 1..last \subseteq Ids /\ Ids \subseteq Nat /\ 0..MaxId \subseteq Nat
  BY Bounds DEF TypeOK, Ids
<1>2. log \in Seq(1..last) /\ wire \in Seq(Committed) /\ stream \in Stream /\ client \in Client
  BY DEF TypeOK
<1>3. Committed \subseteq 1..last
  BY <1>2, Widen DEF Committed
<1>4. /\ stream.rows \in Seq(Ids) /\ stream.position \in 0..MaxId
      /\ client.got \in Seq(Ids) /\ client.cursor \in -1..MaxId /\ client.from \in -1..MaxId
  BY <1>2 DEF Stream, Client
<1>5. Committed \subseteq Nat
  BY <1>1, <1>3
<1> QED BY <1>1, <1>2, <1>3, <1>4, <1>5, Widen

-----------------------------------------------------------------------------
(* What the tail left behind it stays accounted for while the log is the   *)
(* same and the client has what it had.                                    *)
LEMMA PassedKept ==
    ASSUME TailInv, log' = log, swept \subseteq swept', client'.from = client.from,
           ToSet(client.got) \cup ToSet(wire) \subseteq
               ToSet(client'.got) \cup ToSet(wire') \cup {e \in Ids : e \notin Wanted},
           NEW q \in Passed
    PROVE  Reached(q)' /\ Behind(q)'
<1>1. Reached(q) /\ Behind(q)
  BY DEF TailInv, PassedInv
<1>2. Committed' = Committed /\ \A e : Late(e)' = Late(e)
  BY DEF Committed, Late
<1> QED BY <1>1, <1>2 DEF Reached, Behind

(* A step of the writers, of the sweep or of access, with the log the same.*)
LEMMA Aside ==
    ASSUME TailInv, UNCHANGED <<log, stream, wire, client>>, TableInv',
           swept \subseteq swept', entitled \subseteq entitled'
    PROVE  TailInv'
<1>1. Committed' = Committed /\ \A e : Late(e)' = Late(e)
  BY DEF Committed, Late
<1>2. RowsInv'
  BY <1>1 DEF TailInv, RowsInv
<1>3. ClientInv'
  BY DEF TailInv, ClientInv
<1>4. PassedInv'
  <2>1. Passed' = Passed
    BY DEF Passed
  <2>2. \A q \in Passed : Reached(q)' /\ Behind(q)'
    BY PassedKept
  <2> QED BY <2>1, <2>2 DEF PassedInv
<1> QED BY <1>2, <1>3, <1>4 DEF TailInv

LEMMA EmitEventInv ==
    ASSUME TailInv, EmitEvent
    PROVE  TailInv'
<1>1. /\ TableInv /\ TypeOK /\ last < MaxId /\ last' = last + 1 /\ open' = open \cup {last + 1}
      /\ UNCHANGED <<log, swept, reader, entitled, revokes, stream, wire, client>>
  BY DEF EmitEvent, access, TailInv, TableInv
<1>2. last \in Nat /\ last' \in 0..MaxId /\ 1..last \subseteq 1..last'
  BY <1>1, Bounds DEF TypeOK
<1>3. Committed' = Committed /\ Committed \subseteq 1..last
  BY <1>1, Typed DEF Committed
<1>4. log' \in Seq(1..last')
  BY <1>1, <1>2, Widen DEF TypeOK
<1>5. open' \subseteq 1..last' /\ open' \cap Committed' = {}
  BY <1>1, <1>2, <1>3 DEF TypeOK, TableInv
<1>6. TypeOK'
  BY <1>1, <1>2, <1>3, <1>4, <1>5 DEF TypeOK
<1>7. TableInv'
  BY <1>1, <1>3, <1>5, <1>6 DEF TableInv
<1> QED BY <1>1, <1>7, Aside

LEMMA RollbackInv ==
    ASSUME TailInv, NEW e \in Ids, Rollback(e)
    PROVE  TailInv'
<1>1. /\ open' = open \ {e}
      /\ UNCHANGED <<last, log, swept, reader, entitled, revokes, stream, wire, client>>
  BY DEF Rollback, access
<1>2. Committed' = Committed
  BY <1>1 DEF Committed
<1>3. TableInv'
  BY <1>1, <1>2 DEF TailInv, TableInv, TypeOK
<1> QED BY <1>1, <1>3, Aside

LEMMA SweepInv ==
    ASSUME TailInv, NEW S, Sweep(S)
    PROVE  TailInv'
<1>1. /\ swept' = swept \cup S /\ S \subseteq Committed
      /\ UNCHANGED <<last, open, log, reader, entitled, revokes, stream, wire, client>>
  BY DEF Sweep, access, Retained
<1>2. Committed' = Committed
  BY <1>1 DEF Committed
<1>3. TableInv'
  BY <1>1, <1>2 DEF TailInv, TableInv, TypeOK
<1> QED BY <1>1, <1>3, Aside

LEMMA RevokeInv ==
    ASSUME TailInv, Revoke
    PROVE  TailInv'
<1>1. /\ reader' = FALSE /\ revokes < MaxRevokes /\ revokes' = revokes + 1
      /\ UNCHANGED <<last, open, log, swept, entitled, stream, wire, client>>
  BY DEF Revoke, table
<1>2. Committed' = Committed /\ revokes' \in 0..MaxRevokes
  BY <1>1, Bounds DEF Committed, TailInv, TableInv, TypeOK
<1>3. TableInv'
  BY <1>1, <1>2 DEF TailInv, TableInv, TypeOK
<1> QED BY <1>1, <1>3, Aside

LEMMA GrantInv ==
    ASSUME TailInv, Grant
    PROVE  TailInv'
<1>1. /\ reader' = TRUE /\ entitled' = entitled \cup Committed
      /\ UNCHANGED <<last, open, log, swept, revokes, stream, wire, client>>
  BY DEF Grant, table
<1>2. Committed' = Committed
  BY <1>1 DEF Committed
<1>3. TableInv'
  BY <1>1, <1>2 DEF TailInv, TableInv, TypeOK
<1> QED BY <1>1, <1>3, Aside

(* A commit behind a place the tail has passed is late: something with a   *)
(* larger id was committed before it.                                      *)
LEMMA CommitInv ==
    ASSUME TailInv, NEW e \in Ids, Commit(e)
    PROVE  TailInv'
<1>1. /\ e \in open /\ open' = open \ {e} /\ log' = Append(log, e)
      /\ entitled' = IF reader THEN entitled \cup {e} ELSE entitled
      /\ stream' = IF stream.pc \in {"closed", "open"} THEN stream
                   ELSE [stream EXCEPT !.notice = TRUE]
      /\ UNCHANGED <<last, swept, reader, revokes, wire, client>>
  BY DEF Commit
<1>2. TypeOK /\ e \in 1..last /\ e \notin Committed
  BY <1>1 DEF TailInv, TableInv, TypeOK
<1>3. log' \in Seq(1..last) /\ Committed' = Committed \cup {e}
  BY <1>1, <1>2, Appending DEF TypeOK, Committed
<1>4. /\ \A x : Late(x) => Late(x)'
      /\ \A f \in Committed : e < f => Late(e)'
  <2>1. /\ Len(log) \in Nat /\ DOMAIN log = 1..Len(log) /\ DOMAIN log' = 1..(Len(log) + 1)
        /\ \A i \in 1..Len(log) : log'[i] = log[i] /\ i \in DOMAIN log' /\ i < Len(log) + 1
        /\ log'[Len(log) + 1] = e /\ Len(log) + 1 \in DOMAIN log'
    BY <1>1, <1>2 DEF TypeOK
  <2>2. \A x : Late(x) => Late(x)'
    BY <2>1 DEF Late
  <2>3. \A f \in Committed : \E i \in 1..Len(log) : log[i] = f
    BY <2>1 DEF Committed, ToSet
  <2>4. ASSUME NEW f \in Committed, e < f
        PROVE  Late(e)'
    <3>1. PICK i \in 1..Len(log) : log[i] = f
      BY <2>3
    <3> QED BY <2>1, <2>4, <3>1 DEF Late
  <2> QED BY <2>2, <2>4
<1>5. /\ stream' \in Stream /\ stream'.pc = stream.pc /\ stream'.rows = stream.rows
      /\ stream'.position = stream.position
  BY <1>1, <1>2 DEF TypeOK, Stream
<1>6. wire' \in Seq(Committed')
  BY <1>1, <1>2, <1>3, Widen DEF TypeOK
<1>7. TypeOK'
  BY <1>1, <1>2, <1>3, <1>5, <1>6 DEF TypeOK
<1>8. TableInv'
  BY <1>1, <1>2, <1>3, <1>7 DEF TailInv, TableInv
<1>9. RowsInv'
  <2>1. ASSUME NEW r \in ToSet(stream.rows), NEW x \in Committed' \ ToSet(stream.rows),
               stream.position < x, x < r
        PROVE  Late(x)' \/ x \in swept'
    <3>1. RowsInv /\ r \in Committed
      BY <2>1 DEF TailInv, RowsInv
    <3>2. CASE x \in Committed
      BY <1>1, <1>4, <2>1, <3>1, <3>2 DEF RowsInv
    <3>3. CASE x = e
      BY <1>4, <2>1, <3>1, <3>3
    <3> QED BY <1>3, <3>2, <3>3
  <2> QED BY <1>1, <1>3, <1>5, <2>1 DEF TailInv, RowsInv
<1>10. ClientInv'
  BY <1>1, <1>5 DEF TailInv, ClientInv
<1>11. PassedInv'
  <2>1. Passed' = Passed
    BY <1>1, <1>5 DEF Passed
  <2>2. ASSUME NEW q \in Passed
        PROVE  Reached(q)' /\ Behind(q)'
    <3>1. Reached(q) /\ Behind(q) /\ q \in Int
      BY <1>2, Typed DEF TailInv, PassedInv, Passed
    <3>2. Reached(q)'
      BY <1>3, <3>1 DEF Reached
    <3>3. e <= q => Late(e)'
      <4> SUFFICES ASSUME e <= q PROVE Late(e)'
        OBVIOUS
      <4>1. e \in Nat /\ e > 0 /\ Committed \subseteq Nat
        BY <1>2, Typed DEF Ids
      <4>2. PICK f \in Committed : q <= f
        BY <3>1, <4>1 DEF Reached
      <4> QED BY <1>2, <1>4, <3>1, <4>1, <4>2
    <3>4. Behind(q)'
      BY <1>1, <1>3, <1>4, <3>1, <3>3 DEF Behind
    <3> QED BY <3>2, <3>4
  <2> QED BY <2>1, <2>2 DEF PassedInv
<1> QED BY <1>8, <1>9, <1>10, <1>11 DEF TailInv

-----------------------------------------------------------------------------
(* A step of the server alone, at the same position or closing.            *)
LEMMA StreamOnly ==
    ASSUME TailInv, UNCHANGED <<table, access, wire, client>>, stream' \in Stream, RowsInv',
           stream'.pc # "closed" => stream.pc # "closed" /\ stream'.position = stream.position
    PROVE  TailInv'
<1>1. Committed' = Committed
  BY DEF table, Committed
<1>2. TableInv'
  BY <1>1 DEF table, access, TailInv, TableInv, TypeOK
<1>3. ClientInv'
  BY DEF access, TailInv, ClientInv
<1>4. PassedInv'
  <2>1. Passed' \subseteq Passed
    BY DEF Passed
  <2>2. \A q \in Passed : Reached(q)' /\ Behind(q)'
    BY PassedKept DEF table
  <2> QED BY <2>1, <2>2 DEF PassedInv
<1> QED BY <1>2, <1>3, <1>4 DEF TailInv

(* The same, with the rows in hand the same too.                           *)
LEMMA Stepping ==
    ASSUME TailInv, UNCHANGED <<table, access, wire, client>>,
           NEW pc \in {"closed", "open", "check", "query", "fetched", "recheck", "send", "wait"},
           NEW wakeup \in BOOLEAN, NEW notice \in BOOLEAN,
           pc # "closed" => stream.pc # "closed",
           stream' = [stream EXCEPT !.pc = pc, !.wakeup = wakeup, !.notice = notice],
           pc \in {"recheck", "send"} => stream.rows # <<>>,
           pc = "send" => reader \/ stream.pc = "send"
    PROVE  TailInv'
<1>1. stream \in Stream
  BY DEF TailInv, TableInv, TypeOK
<1>2. /\ stream' \in Stream /\ stream'.pc = pc /\ stream'.rows = stream.rows
      /\ stream'.position = stream.position
  BY <1>1 DEF Stream
<1>3. Committed' = Committed /\ \A e : Late(e)' = Late(e)
  BY DEF table, Committed, Late
<1>4. pc = "send" => ToSet(stream.rows) \subseteq entitled
  BY DEF TailInv, TableInv, RowsInv
<1>5. RowsInv'
  BY <1>2, <1>3, <1>4 DEF TailInv, RowsInv, table, access
<1> QED BY <1>2, <1>5, StreamOnly

LEMMA ServerInv ==
    ASSUME TailInv, Listen \/ Authorize \/ Fetched \/ Notify \/ Wake \/ Heartbeat
    PROVE  TailInv'
<1>1. /\ stream \in Stream /\ RowsInv
  BY DEF TailInv, TableInv, TypeOK
<1>2. \A pc : stream.wakeup \in BOOLEAN /\ stream.notice \in BOOLEAN
        /\ [stream EXCEPT !.pc = pc] =
             [stream EXCEPT !.pc = pc, !.wakeup = stream.wakeup, !.notice = stream.notice]
  BY <1>1 DEF Stream
<1>3. CASE Listen
  BY <1>2, <1>3, Stepping DEF Listen
<1>4. CASE Authorize
  <2>1. reader /\ stream.pc \in {"check", "recheck"} /\ UNCHANGED <<table, access, wire, client>>
    BY <1>4 DEF Authorize
  <2>2. CASE stream.pc = "check"
    <3>1. stream' = [stream EXCEPT !.pc = "query"]
      BY <1>4, <2>2 DEF Authorize
    <3>2. stream' = [stream EXCEPT !.pc = "query", !.wakeup = stream.wakeup, !.notice = stream.notice]
      BY <1>2, <3>1
    <3> QED BY <1>2, <2>1, <2>2, <3>2, Stepping
  <2>3. CASE stream.pc = "recheck"
    <3>1. stream' = [stream EXCEPT !.pc = "send"] /\ stream.rows # <<>>
      BY <1>1, <1>4, <2>3 DEF Authorize, RowsInv
    <3>2. stream' = [stream EXCEPT !.pc = "send", !.wakeup = stream.wakeup, !.notice = stream.notice]
      BY <1>2, <3>1
    <3> QED BY <1>2, <2>1, <2>3, <3>1, <3>2, Stepping
  <2> QED BY <2>1, <2>2, <2>3
<1>5. CASE Fetched
  <2>1. stream.pc = "fetched" /\ UNCHANGED <<table, access, wire, client>>
    BY <1>5 DEF Fetched
  <2>2. PICK pc \in {"wait", "recheck"} :
          stream' = [stream EXCEPT !.pc = pc] /\ (pc = "recheck" => stream.rows # <<>>)
    BY <1>5 DEF Fetched
  <2>3. stream' = [stream EXCEPT !.pc = pc, !.wakeup = stream.wakeup, !.notice = stream.notice]
    BY <1>2, <2>2
  <2> QED BY <1>2, <2>1, <2>2, <2>3, Stepping
<1>6. CASE Wake
  BY <1>2, <1>6, Stepping DEF Wake
<1>7. CASE Heartbeat
  BY <1>2, <1>7, Stepping DEF Heartbeat
<1>8. CASE Notify
  <2>1. stream' = [stream EXCEPT !.pc = stream.pc, !.wakeup = TRUE, !.notice = FALSE]
    BY <1>1, <1>8 DEF Notify, Stream
  <2>2. stream.pc \in {"closed", "open", "check", "query", "fetched", "recheck", "send", "wait"}
    BY <1>1 DEF Stream
  <2> QED BY <1>1, <1>8, <2>1, <2>2, Stepping DEF Notify, RowsInv
<1> QED BY <1>3, <1>4, <1>5, <1>6, <1>7, <1>8

LEMMA ExpelInv ==
    ASSUME TailInv, Expel
    PROVE  TailInv'
<1>1. /\ Closed \in Stream /\ Closed.pc = "closed" /\ Closed.rows = <<>>
      /\ ToSet(Closed.rows) = {}
  BY Bounds DEF Closed, Stream, ToSet
<1>2. stream' = Closed /\ UNCHANGED <<table, access, wire, client>>
  BY DEF Expel
<1>3. RowsInv'
  BY <1>1, <1>2 DEF RowsInv, Rising
<1> QED BY <1>1, <1>2, <1>3, StreamOnly

\* The snapshot: what is left out of a batch below its last row was purged.
LEMMA QueryInv ==
    ASSUME TailInv, Query
    PROVE  TailInv'
<1>1. /\ stream.pc = "query" /\ UNCHANGED <<table, access, wire, client>>
      /\ stream \in Stream /\ TypeOK
  BY DEF Query, TailInv, TableInv, TypeOK
<1>2. PICK rows \in Batch(stream.position) :
         stream' = [stream EXCEPT !.wakeup = FALSE, !.rows = rows, !.pc = "fetched"]
  BY DEF Query
<1>3. /\ rows \in BoundedSeq(After(stream.position), BatchSize)
      /\ \A i, j \in DOMAIN rows : i < j => rows[i] < rows[j]
      /\ \A e \in After(stream.position) \ ToSet(rows) : \A i \in DOMAIN rows : rows[i] < e
  BY <1>2 DEF Batch
<1>4. After(stream.position) \subseteq Committed /\ Committed \subseteq Ids /\ Ids \subseteq Nat
  BY <1>1, Typed DEF After, Retained
<1>5. rows \in Seq(After(stream.position))
  BY <1>3 DEF BoundedSeq, SeqOf
<1>6. rows \in Seq(Ids) /\ ToSet(rows) \subseteq After(stream.position)
  BY <1>4, <1>5, Widen
<1>7. /\ stream' \in Stream /\ stream'.pc = "fetched" /\ stream'.rows = rows
      /\ stream'.position = stream.position
  BY <1>1, <1>2, <1>6 DEF Stream
<1>8. Committed' = Committed /\ swept' = swept
  BY <1>1 DEF table, Committed
<1>9. ASSUME NEW r \in ToSet(rows), NEW e \in Committed \ ToSet(rows),
             stream.position < e, e < r
      PROVE  e \in swept
  <2>1. PICK i \in DOMAIN rows : rows[i] = r
    BY DEF ToSet
  <2>2. e \in Nat /\ r \in Nat
    BY <1>4, <1>6
  <2>3. ~(r < e)
    BY <1>9, <2>2
  <2> QED BY <1>3, <1>9, <2>1, <2>3 DEF After, Retained
<1>10. RowsInv'
  BY <1>3, <1>4, <1>6, <1>7, <1>8, <1>9 DEF RowsInv, Rising, After
<1> QED BY <1>1, <1>7, <1>10, StreamOnly

-----------------------------------------------------------------------------
LEMMA SendInv ==
    ASSUME TailInv, Send
    PROVE  TailInv'
<1>1. /\ stream.pc = "send" /\ stream.rows # <<>> /\ TypeOK /\ RowsInv /\ ClientInv
      /\ UNCHANGED <<table, access, client>>
  BY DEF Send, TailInv, TableInv, RowsInv
<1>2. /\ Committed \subseteq Ids /\ Ids \subseteq Nat /\ stream.rows \in Seq(Nat)
      /\ wire \in Seq(Nat) /\ ToSet(wire) \subseteq Committed /\ stream.position \in Nat
      /\ client.cursor \in Int /\ stream.rows \in Seq(Ids) /\ stream \in Stream
  BY <1>1, Typed DEF TypeOK, Stream
<1>3. PICK h \in Ids : h = Head(stream.rows)
  BY <1>1, <1>2, Heads
<1>4. PICK rest : rest = Tail(stream.rows)
  OBVIOUS
<1>5. /\ ToSet(stream.rows) = {h} \cup ToSet(rest) /\ rest \in Seq(Ids)
      /\ Rising(rest) /\ \A e \in ToSet(rest) : h < e
  BY <1>1, <1>2, <1>3, <1>4, Heads, RisingTail DEF RowsInv
<1>6. /\ h \in Committed /\ h \in entitled /\ stream.position < h
      /\ ToSet(rest) \subseteq Committed /\ h \in Nat
  BY <1>1, <1>2, <1>5 DEF RowsInv
<1>7. /\ wire' = Append(wire, h) /\ wire' \in Seq(Committed)
      /\ ToSet(wire') = ToSet(wire) \cup {h}
  BY <1>1, <1>3, <1>6, Appending DEF Send, TypeOK
<1>8. /\ stream' \in Stream /\ stream'.rows = rest /\ stream'.position = h
      /\ stream'.pc = IF rest = <<>> THEN "check" ELSE "recheck"
  <2>1. stream' = [stream EXCEPT !.position = h, !.rows = rest,
                                 !.pc = IF rest = <<>> THEN "check" ELSE "recheck"]
    BY <1>3, <1>4 DEF Send
  <2>2. h \in 0..MaxId
    BY <1>3, Bounds DEF Ids
  <2> QED BY <1>2, <1>5, <2>1, <2>2 DEF Stream
<1>9. Committed' = Committed /\ \A e : Late(e)' = Late(e)
  BY <1>1 DEF table, Committed, Late
<1>10. TableInv'
  BY <1>1, <1>7, <1>8, <1>9 DEF table, access, TailInv, TableInv, TypeOK
<1>11. \A e \in Committed : stream.position < e /\ e \notin ToSet(stream.rows) =>
         \A r \in ToSet(stream.rows) : e < r => Late(e) \/ e \in swept
  BY <1>1 DEF RowsInv
<1>12. RowsInv'
  <2>1. ASSUME NEW r \in ToSet(rest), NEW e \in Committed \ ToSet(rest), h < e, e < r
        PROVE  Late(e) \/ e \in swept
    <3>1. e \in Nat /\ r \in ToSet(stream.rows)
      BY <1>2, <1>5
    <3>2. e # h /\ e \notin ToSet(stream.rows) /\ stream.position < e
      BY <1>2, <1>5, <1>6, <2>1, <3>1
    <3> QED BY <1>11, <2>1, <3>1, <3>2
  <2> QED BY <1>1, <1>5, <1>6, <1>8, <1>9, <2>1 DEF table, RowsInv
<1>13. ClientInv'
  <2>1. ASSUME NEW e \in ToSet(wire)
        PROVE  e < h /\ client.cursor < e /\ e \in entitled
    <3>1. e \in Nat /\ e <= stream.position /\ client.cursor < e /\ e \in entitled
      BY <1>1, <1>2 DEF ClientInv
    <3> QED BY <1>2, <1>6, <3>1
  <2>2. client.cursor < h
    BY <1>1, <1>2, <1>6 DEF ClientInv
  <2>3. Rising(wire')
    BY <1>1, <1>2, <1>6, <1>7, <2>1, RisingAppend DEF ClientInv
  <2>4. ASSUME NEW e \in ToSet(wire')
        PROVE  e <= h
    <3>1. (e \in ToSet(wire) \/ e = h) /\ e \in Nat
      BY <1>2, <1>6, <1>7
    <3> QED BY <1>6, <2>1, <3>1
  <2> QED BY <1>1, <1>2, <1>6, <1>7, <1>8, <2>1, <2>2, <2>3, <2>4 DEF access, ClientInv
<1>14. PassedInv'
  <2>1. Passed' \subseteq Passed \cup {h} /\ stream.position \in Passed
    BY <1>1, <1>7, <1>8 DEF Passed
  <2>2. \A q \in Passed : Reached(q)' /\ Behind(q)'
    BY <1>1, <1>7, PassedKept DEF table
  <2>3. Reached(h)'
    BY <1>2, <1>6, <1>9 DEF Reached
  <2>4. Behind(h)'
    <3>1. ASSUME NEW e \in Committed \cap Wanted, client.from < e, e <= h,
                 e \notin ToSet(client.got) \cup ToSet(wire')
          PROVE  Late(e) \/ e \in swept
      <4>1. e \in Nat /\ e < h
        BY <1>2, <1>6, <1>7, <3>1
      <4>2. CASE e <= stream.position
        BY <1>7, <2>1, <3>1, <4>2 DEF TailInv, PassedInv, Behind
      <4>3. CASE stream.position < e
        <5>1. e \notin ToSet(stream.rows)
          BY <1>5, <1>6, <4>1, <1>2
        <5> QED BY <1>5, <1>11, <4>1, <4>3, <5>1
      <4> QED BY <1>2, <4>1, <4>2, <4>3
    <3> QED BY <1>1, <1>9, <3>1 DEF table, Behind
  <2> QED BY <2>1, <2>2, <2>3, <2>4 DEF PassedInv
<1> QED BY <1>10, <1>12, <1>13, <1>14 DEF TailInv

LEMMA ReceiveInv ==
    ASSUME TailInv, Receive
    PROVE  TailInv'
<1>1. /\ wire # <<>> /\ TypeOK /\ ClientInv /\ UNCHANGED <<table, access, stream>>
  BY DEF Receive, TailInv, TableInv
<1>2. /\ Committed \subseteq Ids /\ Ids \subseteq Nat /\ wire \in Seq(Nat)
      /\ ToSet(wire) \subseteq Committed /\ client.cursor \in Int
      /\ client.got \in Seq(Nat) /\ ToSet(client.got) \subseteq Ids
      /\ wire \in Seq(Committed) /\ client \in Client /\ stream.position \in Nat
  BY <1>1, Typed DEF TypeOK
<1>3. PICK h \in Committed : h = Head(wire)
  BY <1>1, <1>2, Heads
<1>4. /\ wire' \in Seq(Committed) /\ ToSet(wire) = {h} \cup ToSet(wire')
      /\ Rising(wire') /\ \A e \in ToSet(wire') : h < e
  BY <1>1, <1>2, <1>3, Heads, RisingTail DEF Receive, ClientInv
<1>5. client.cursor < h /\ h \in entitled /\ h \in Nat /\ h \in Ids
  BY <1>1, <1>2, <1>4 DEF ClientInv
<1>6. ASSUME NEW e \in ToSet(client.got)
      PROVE  e < h /\ e \in entitled /\ e \in Nat
  <2>1. e \in Nat /\ e <= client.cursor /\ e \in entitled
    BY <1>1, <1>2 DEF ClientInv
  <2> QED BY <1>2, <1>5, <2>1
<1> DEFINE got == IF h \in Wanted THEN Append(client.got, h) ELSE client.got
<1>7. client' = [client EXCEPT !.cursor = h, !.got = got]
  BY <1>2, <1>3 DEF Receive, Client
<1>8. /\ got \in Seq(Ids) /\ ToSet(got) \subseteq ToSet(client.got) \cup {h}
      /\ ToSet(client.got) \subseteq ToSet(got) /\ Rising(got)
      /\ h \in Wanted => h \in ToSet(got)
  <2>1. client.got \in Seq(Ids)
    BY <1>2 DEF Client
  <2>2. Rising(client.got)
    BY <1>1 DEF ClientInv
  <2>3. CASE h \in Wanted
    BY <1>2, <1>5, <1>6, <2>1, <2>2, <2>3, Appending, RisingAppend
  <2>4. CASE h \notin Wanted
    BY <2>1, <2>2, <2>4
  <2> QED BY <2>3, <2>4
<1> HIDE DEF got
<1>9. /\ client' \in Client /\ client'.cursor = h /\ client'.got = got
      /\ client'.from = client.from
  <2>1. h \in -1..MaxId
    BY <1>5, Bounds DEF Ids
  <2> QED BY <1>2, <1>7, <1>8, <2>1 DEF Client
<1>10. Committed' = Committed /\ \A e : Late(e)' = Late(e)
  BY <1>1 DEF table, Committed, Late
<1>11. TableInv'
  BY <1>1, <1>4, <1>9, <1>10 DEF table, access, TailInv, TableInv, TypeOK
<1>12. RowsInv'
  BY <1>1, <1>10 DEF table, access, TailInv, RowsInv
<1>13. ClientInv'
  <2>1. \A e \in ToSet(got) : e <= h /\ e \in entitled
    BY <1>5, <1>6, <1>8
  <2>2. \A e \in ToSet(wire') : h < e /\ e \in entitled
    BY <1>1, <1>4 DEF ClientInv
  <2>3. stream.pc # "closed" =>
          h <= stream.position /\ \A e \in ToSet(wire') : e <= stream.position
    BY <1>1, <1>4 DEF ClientInv
  <2> QED BY <1>1, <1>4, <1>8, <1>9, <2>1, <2>2, <2>3 DEF access, ClientInv
<1>14. PassedInv'
  <2>1. Passed' \subseteq Passed
    BY <1>1, <1>4, <1>9 DEF Passed
  <2>2. \A q \in Passed : Reached(q)' /\ Behind(q)'
    <3>1. log' = log /\ swept' = swept
      BY <1>1 DEF table
    <3>2. ToSet(client.got) \cup ToSet(wire) \subseteq
            ToSet(client'.got) \cup ToSet(wire') \cup {e \in Ids : e \notin Wanted}
      <4>1. h \in ToSet(got) \cup {e \in Ids : e \notin Wanted}
        BY <1>5, <1>8
      <4>2. ToSet(client'.got) = ToSet(got)
        BY <1>9
      <4> QED BY <1>4, <1>8, <4>1, <4>2
    <3> QED BY <1>9, <3>1, <3>2, PassedKept
  <2> QED BY <2>1, <2>2 DEF PassedInv
<1> QED BY <1>11, <1>12, <1>13, <1>14 DEF TailInv

\* Without a frame under way and without a stream, only the cursor is passed.
LEMMA DisconnectInv ==
    ASSUME TailInv, Disconnect
    PROVE  TailInv'
<1>1. /\ stream' = Closed /\ wire' = <<>> /\ UNCHANGED <<table, access, client>>
      /\ TypeOK /\ ClientInv
  BY DEF Disconnect, TailInv, TableInv
<1>2. /\ Closed \in Stream /\ Closed.pc = "closed" /\ Closed.rows = <<>>
      /\ ToSet(Closed.rows) = {} /\ ToSet(<<>>) = {}
  BY Bounds DEF Closed, Stream, ToSet
<1>3. /\ Committed \subseteq Nat /\ client.cursor \in Int /\ ToSet(wire) \subseteq Committed
  BY <1>1, Typed
<1>4. Committed' = Committed /\ \A e : Late(e)' = Late(e)
  BY <1>1 DEF table, Committed, Late
<1>5. TableInv'
  BY <1>1, <1>2, <1>4 DEF table, access, TailInv, TableInv, TypeOK
<1>6. RowsInv'
  BY <1>1, <1>2 DEF RowsInv, Rising
<1>7. ClientInv'
  BY <1>1, <1>2 DEF access, ClientInv, Rising
<1>8. PassedInv'
  <2>1. Passed' = {client.cursor} /\ client.cursor \in Passed
    BY <1>1, <1>2 DEF Passed
  <2>2. \A q \in Passed : Reached(q) /\ Behind(q)
    BY DEF TailInv, PassedInv
  <2>3. \A e \in Committed : e <= client.cursor => e \notin ToSet(wire)
    <3> TAKE e \in Committed
    <3>1. e \in ToSet(wire) => client.cursor < e
      BY <1>1 DEF ClientInv
    <3> QED BY <1>3, <3>1
  <2>4. ASSUME NEW q, q = client.cursor
        PROVE  Reached(q)' /\ Behind(q)'
    <3>1. Reached(q) /\ Behind(q) /\ \A e \in Committed : e <= q => e \notin ToSet(wire)
      BY <2>1, <2>2, <2>3, <2>4
    <3> QED BY <1>1, <1>2, <1>4, <3>1 DEF table, Reached, Behind
  <2> QED BY <2>1, <2>4 DEF PassedInv
<1> QED BY <1>5, <1>6, <1>7, <1>8 DEF TailInv

\* The places a subscription may begin at.
LEMMA EndsReached ==
    ASSUME TypeOK, NEW p \in Ends
    PROVE  Reached(p)
<1>1. Committed \subseteq Nat
  BY Typed
<1>2. CASE p \in Latest
  BY <1>1, <1>2 DEF Latest, Retained, Reached
<1>3. CASE \E e \in Earliest : p = e - 1
  BY <1>1, <1>3 DEF Earliest, Retained, Reached
<1> QED BY <1>2, <1>3 DEF Ends

LEMMA ConnectInv ==
    ASSUME TailInv, NEW p \in 0..MaxId, Connect(p)
    PROVE  TailInv'
<1> DEFINE s == [Closed EXCEPT !.pc = "open", !.position = p]
           from == IF client.cursor = -1 THEN p ELSE client.from
<1>1. /\ stream.pc = "closed" /\ wire = <<>> /\ wire' = wire /\ p \in Starts
      /\ client.connects < MaxConnects /\ stream' = s
      /\ UNCHANGED <<table, access>> /\ TypeOK /\ ClientInv
  BY DEF Connect, TailInv, TableInv
<1>2. /\ s \in Stream /\ s.pc = "open" /\ s.position = p /\ s.rows = <<>>
      /\ ToSet(s.rows) = {} /\ ToSet(wire) = {}
  <2>1. Closed \in Stream /\ Closed.rows = <<>>
    BY Bounds DEF Closed, Stream
  <2>2. s \in Stream /\ s.pc = "open" /\ s.position = p /\ s.rows = <<>>
    BY <2>1 DEF Stream
  <2>3. ToSet(<<>>) = {}
    BY DEF ToSet
  <2> QED BY <1>1, <2>2, <2>3
<1>3. /\ client \in Client /\ client.cursor \in -1..MaxId /\ Committed \subseteq Nat \ {0}
      /\ client.connects \in Nat /\ from \in -1..MaxId
  BY <1>1, Typed, Bounds DEF TypeOK, Client, Ids
<1>4. client' = [client EXCEPT !.connects = client.connects + 1, !.from = from]
  BY <1>3 DEF Connect, Client
<1> HIDE DEF s
<1>5. /\ client' \in Client /\ client'.cursor = client.cursor /\ client'.got = client.got
      /\ client'.from = from
  <2>1. client.connects + 1 \in 0..MaxConnects
    BY <1>1, <1>3, Bounds
  <2> HIDE DEF from
  <2> QED BY <1>3, <1>4, <2>1 DEF Client
<1>6. Committed' = Committed /\ \A e : Late(e)' = Late(e)
  BY <1>1 DEF table, Committed, Late
<1>7. TableInv'
  BY <1>1, <1>2, <1>5, <1>6 DEF table, access, TailInv, TableInv, TypeOK
<1>8. RowsInv'
  BY <1>1, <1>2 DEF RowsInv, Rising
<1>9. client.cursor # -1 => p = client.cursor
  BY <1>1 DEF Starts
<1>10. ClientInv'
  <2>1. client.cursor <= p
    BY <1>3, <1>9
  <2> QED BY <1>1, <1>2, <1>5, <2>1 DEF access, ClientInv
<1>11. PassedInv'
  <2>1. Passed' = {client.cursor, p} /\ client.cursor \in Passed
    BY <1>1, <1>2, <1>5 DEF Passed
  <2>2. CASE client.cursor # -1
    <3>1. Passed' \subseteq Passed
      BY <1>9, <2>1, <2>2
    <3>2. \A q \in Passed : Reached(q)' /\ Behind(q)'
      BY <1>1, <1>5, <2>2, PassedKept DEF table
    <3> QED BY <3>1, <3>2 DEF PassedInv
  <2>3. CASE client.cursor = -1
    <3>1. Reached(p)
      BY <1>1, <2>3, EndsReached DEF Starts, Reached
    <3>2. Reached(p)' /\ Reached(-1)'
      BY <1>6, <3>1 DEF Reached
    <3>3. \A q \in {-1, p} : Behind(q)'
      BY <1>3, <1>5, <1>6, <2>3 DEF Behind
    <3> QED BY <2>1, <2>3, <3>2, <3>3 DEF PassedInv
  <2> QED BY <2>2, <2>3
<1> QED BY <1>7, <1>8, <1>10, <1>11 DEF TailInv

LEMMA RefuseInv ==
    ASSUME TailInv, NEW p \in 0..MaxId, Refuse(p)
    PROVE  TailInv'
<1>1. /\ stream.pc = "closed" /\ wire = <<>> /\ InGap(client.cursor) /\ p \in Ends
      /\ client.connects < MaxConnects
      /\ UNCHANGED <<table, access, stream, wire>> /\ TypeOK /\ ClientInv
  BY DEF Refuse, TailInv, TableInv
<1>2. /\ client \in Client /\ client.cursor \in Int /\ Committed \subseteq Nat
      /\ client.connects \in Nat /\ ToSet(client.got) \subseteq Nat /\ ToSet(wire) = {}
  BY <1>1, Typed DEF TypeOK, Client, ToSet
<1>3. client' = [client EXCEPT !.connects = client.connects + 1, !.cursor = p, !.from = p]
  BY <1>2 DEF Refuse, Client
<1>4. /\ client' \in Client /\ client'.cursor = p /\ client'.got = client.got
      /\ client'.from = p
  <2>1. client.connects + 1 \in 0..MaxConnects /\ p \in -1..MaxId
    BY <1>1, <1>2, Bounds
  <2> QED BY <1>2, <1>3, <2>1 DEF Client
<1>5. client.cursor < p
  <2>1. PICK e \in Earliest : client.cursor < e - 1
    BY <1>1 DEF InGap
  <2>2. e \in Nat /\ \A f \in Retained : e <= f /\ f \in Nat
    BY <1>2 DEF Earliest, Retained
  <2>3. CASE p \in Latest
    BY <1>2, <2>1, <2>2, <2>3 DEF Latest
  <2>4. CASE \E d \in Earliest : p = d - 1
    BY <1>2, <2>1, <2>2, <2>4 DEF Earliest
  <2> QED BY <1>1, <2>3, <2>4 DEF Ends
<1>6. Committed' = Committed /\ \A e : Late(e)' = Late(e)
  BY <1>1 DEF table, Committed, Late
<1>7. TableInv'
  BY <1>1, <1>4, <1>6 DEF table, access, TailInv, TableInv, TypeOK
<1>8. RowsInv'
  BY <1>1, <1>6 DEF table, access, TailInv, RowsInv
<1>9. ClientInv'
  <2>1. ASSUME NEW e \in ToSet(client.got)
        PROVE  e <= p /\ e \in entitled
    <3>1. e <= client.cursor /\ e \in entitled /\ e \in Nat
      BY <1>1, <1>2 DEF ClientInv
    <3> QED BY <1>2, <1>5, <3>1
  <2> QED BY <1>1, <1>2, <1>4, <2>1 DEF access, ClientInv
<1>10. PassedInv'
  <2>1. Passed' = {p}
    BY <1>1, <1>2, <1>4 DEF Passed
  <2>2. Reached(p)'
    BY <1>1, <1>6, EndsReached DEF Reached
  <2>3. Behind(p)'
    BY <1>2, <1>4, <1>6 DEF Behind
  <2> QED BY <2>1, <2>2, <2>3 DEF PassedInv
<1> QED BY <1>7, <1>8, <1>9, <1>10 DEF TailInv

-----------------------------------------------------------------------------
LEMMA InitInv == Init => TailInv
<1> SUFFICES ASSUME Init PROVE TailInv
  OBVIOUS
<1>1. /\ Closed \in Stream /\ Closed.pc = "closed" /\ Closed.rows = <<>>
      /\ ToSet(<<>>) = {}
  BY Bounds DEF Closed, Stream, ToSet
<1>2. Committed = {} /\ client.cursor = -1 /\ client.got = <<>> /\ client.from = -1
  BY <1>1 DEF Init, Committed
<1>3. TypeOK
  BY <1>1, <1>2, Bounds DEF Init, TypeOK, Client
<1>4. TableInv /\ RowsInv /\ ClientInv
  BY <1>1, <1>2, <1>3 DEF Init, TableInv, RowsInv, ClientInv, Rising
<1>5. PassedInv
  BY <1>1, <1>2 DEF Init, PassedInv, Passed, Reached, Behind
<1> QED BY <1>4, <1>5 DEF TailInv

LEMMA StepInv == TailInv /\ [Next]_vars => TailInv'
<1> SUFFICES ASSUME TailInv, [Next]_vars PROVE TailInv'
  OBVIOUS
<1>1. CASE EmitEvent \/ (\E e \in Ids : Commit(e) \/ Rollback(e))
  BY <1>1, EmitEventInv, CommitInv, RollbackInv
<1>2. CASE (\E S \in SUBSET Ids : Sweep(S)) \/ Revoke \/ Grant
  BY <1>2, SweepInv, RevokeInv, GrantInv
<1>3. CASE \E p \in 0..MaxId : Connect(p) \/ Refuse(p)
  BY <1>3, ConnectInv, RefuseInv
<1>4. CASE Listen \/ Authorize \/ Fetched \/ Notify \/ Wake \/ Heartbeat
  BY <1>4, ServerInv
<1>5. CASE Expel \/ Query \/ Send \/ Receive \/ Disconnect
  BY <1>5, ExpelInv, QueryInv, SendInv, ReceiveInv, DisconnectInv
<1>6. CASE UNCHANGED vars
  <2>1. UNCHANGED <<log, stream, wire, client, swept, entitled>> /\ TableInv'
    BY <1>6 DEF vars, table, access, TailInv, TableInv, TypeOK, Committed
  <2> QED BY <2>1, Aside
<1> QED BY <1>1, <1>2, <1>3, <1>4, <1>5, <1>6 DEF Next

(* What the tail has passed it delivered, or it was purged or late; frames *)
(* on the connection lie between the client's cursor and the server's      *)
(* position (_stream_events).                                              *)
THEOREM TailInvariant == Spec => []TailInv
<1> QED BY InitInv, StepInv, PTL DEF Spec

(* Through every loss of the connection, and frames lost with it, the      *)
(* client gets each event at most once and in the order of the ids.        *)
THEOREM Ordered == Spec => []OrderedOnce
<1>1. TailInv => OrderedOnce
  BY DEF TailInv, TableInv, ClientInv, Rising, OrderedOnce
<1> QED BY <1>1, TailInvariant, PTL

(* A tail loses nothing but what was purged or committed out of order.     *)
THEOREM NothingElseLost == Spec => []OnlyLateOrSwept
<1>1. ASSUME TailInv, NEW e \in Skipped
      PROVE  Late(e) \/ e \in swept
  <2>1. /\ stream.pc # "closed" /\ e \in Committed \cap Wanted /\ client.from < e
        /\ e <= stream.position /\ e \notin ToSet(client.got) \cup ToSet(wire)
    BY DEF Skipped
  <2>2. stream.position \in Passed
    BY <2>1 DEF Passed
  <2> QED BY <1>1, <2>1, <2>2 DEF TailInv, PassedInv, Behind
<1>2. TailInv => OnlyLateOrSwept
  BY <1>1 DEF OnlyLateOrSwept
<1> QED BY <1>2, TailInvariant, PTL

(* The two looks at the role, at the top of the loop and before each row,  *)
(* are enough: nothing committed after a revocation is sent.               *)
THEOREM Entitled == Spec => []EntitledOnly
<1>1. TailInv => EntitledOnly
  BY DEF TailInv, ClientInv, EntitledOnly
<1> QED BY <1>1, TailInvariant, PTL

-----------------------------------------------------------------------------
(* Of some natural numbers there is a least.                               *)
LEMMA Least ==
    ASSUME NEW T, T \subseteq Nat, T # {}
    PROVE  \E n \in T : \A m \in T : n <= m
<1>1. PICK n \in T : \A m \in T : ~(<<m, n>> \in OpToRel(<, Nat))
  <2>1. IsWellFoundedOn(OpToRel(<, Nat), Nat)
    BY NatLessThanWellFounded
  <2> QED BY <2>1, WFMin
<1>2. \A m \in T : ~(m < n)
  BY <1>1 DEF OpToRel
<1> QED BY <1>2

(* While the sweep takes from the old end, a cursor that is let in has     *)
(* lost nothing to it.                                                     *)
THEOREM GapsAreSeen == Spec => GapSeen
<1> DEFINE Seen(p) == /\ Connect(p)
                      /\ Retained # {}
                      /\ \A e \in swept, f \in Retained : e < f
                      => client.cursor = -1 \/ \A e \in swept : e <= p
<1>1. ASSUME TypeOK, NEW p \in 0..MaxId, Connect(p), Retained # {},
             \A e \in swept, f \in Retained : e < f
      PROVE  \A e \in swept : e <= p
  <2>1. Retained \subseteq Nat /\ swept \subseteq Nat /\ p \in Nat
    BY <1>1, Typed, Bounds DEF TypeOK, Retained
  <2>2. PICK f \in Retained : \A g \in Retained : f <= g
    BY <1>1, <2>1, Least
  <2>3. ~(p < f - 1)
    BY <1>1, <2>2 DEF Connect, InGap, Earliest
  <2> QED BY <1>1, <2>1, <2>2, <2>3
<1>2. TailInv => \A p \in 0..MaxId : Seen(p)
  BY <1>1 DEF TailInv, TableInv
<1> QED BY <1>2, TailInvariant, PTL DEF GapSeen
=============================================================================
