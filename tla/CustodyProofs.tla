---------------------------- MODULE CustodyProofs ----------------------------
(***************************************************************************)
(* What holds of the custody of sources for any numbers of documents,      *)
(* imports and byte strings, whatever overlaps, fails or is damaged.       *)
(***************************************************************************)
EXTENDS Custody, SequenceTheorems, FiniteSetTheorems, TLAPS

-----------------------------------------------------------------------------
(* Chains *)

\* The n-th event of a chain of payloads.
EventAt(chain, n) ==
    [payload |-> chain[n], previous |-> SubSeq(chain, 1, n - 1), hash |-> SubSeq(chain, 1, n)]
EventsOf(chain) == {EventAt(chain, n) : n \in 1..Len(chain)}

\* Payloads of one document, each numbered by its place.
IsChain(chain, d) ==
    /\ chain \in Seq(Payload)
    /\ \A n \in 1..Len(chain) : chain[n].document = d /\ chain[n].sequence = n

\* A table that has exactly the events of one chain.
Keeps(table, d, chain) == IsChain(chain, d) /\ EventsIn(table, d) = EventsOf(chain)

\* Sequences that agree on their first places have the same beginnings.
LEMMA SamePrefixes ==
    ASSUME NEW S, NEW s \in Seq(S), NEW t \in Seq(S), NEW k \in Nat,
           k <= Len(s), k <= Len(t), \A i \in 1..k : s[i] = t[i]
    PROVE  \A m \in 0..k : SubSeq(s, 1, m) = SubSeq(t, 1, m)
<1> TAKE m \in 0..k
<1>1. m \in Int /\ m - 1 + 1 = m /\ Len(s) \in Nat /\ Len(t) \in Nat
  BY LenProperties
<1>2. (\A i \in 1..m : s[i] \in S) /\ (\A i \in 1..m : t[i] \in S)
  BY <1>1, ElementOfSeq
<1>3. /\ SubSeq(s, 1, m) \in Seq(S)
      /\ Len(SubSeq(s, 1, m)) = m
      /\ \A i \in 1..m : SubSeq(s, 1, m)[i] = s[i]
  BY <1>1, <1>2, SubSeqProperties
<1>4. /\ SubSeq(t, 1, m) \in Seq(S)
      /\ Len(SubSeq(t, 1, m)) = m
      /\ \A i \in 1..m : SubSeq(t, 1, m)[i] = t[i]
  BY <1>1, <1>2, SubSeqProperties
<1>5. \A i \in 1..m : SubSeq(s, 1, m)[i] = SubSeq(t, 1, m)[i]
  BY <1>3, <1>4, <1>1
<1> QED
  BY <1>3, <1>4, <1>5, SeqEqual

\* The last of the events of a chain is the one with its full length.
LEMMA LastOfChain ==
    ASSUME NEW d, NEW chain, IsChain(chain, d), chain # <<>>
    PROVE  Last(EventsOf(chain)) = EventAt(chain, Len(chain))
<1> DEFINE n == Len(chain)
           e == EventAt(chain, n)
<1>1. n \in Nat \ {0} /\ n \in 1..Len(chain)
  BY EmptySeq DEF IsChain
<1>2. e \in EventsOf(chain) /\ e.payload.sequence = n
  <2>1. chain[n].sequence = n
    BY <1>1 DEF IsChain
  <2> QED
    BY <2>1, <1>1 DEF EventsOf, EventAt
<1>3. ASSUME NEW f \in EventsOf(chain)
      PROVE  f.payload.sequence \in 1..n /\ (f.payload.sequence = n => f = e)
  <2>1. PICK m \in 1..n : f = EventAt(chain, m)
    BY DEF EventsOf
  <2> QED
    BY <2>1, <1>1 DEF EventAt, IsChain
<1>4. \A f \in EventsOf(chain) : f.payload.sequence <= e.payload.sequence
  BY <1>1, <1>2, <1>3
<1>5. ASSUME NEW g \in EventsOf(chain),
             \A f \in EventsOf(chain) : f.payload.sequence <= g.payload.sequence
      PROVE  g = e
  BY <1>1, <1>2, <1>3, <1>5
<1> HIDE DEF e, n
<1> DEFINE IsLast(g) == \A f \in EventsOf(chain) : f.payload.sequence <= g.payload.sequence
<1>6. IsLast(e) /\ (\A g \in EventsOf(chain) : IsLast(g) => g = e)
  BY <1>4, <1>5
<1>7. Last(EventsOf(chain)) = (CHOOSE g \in EventsOf(chain) : IsLast(g))
  BY DEF Last
<1> HIDE DEF IsLast
<1>8. Last(EventsOf(chain)) = e
  BY <1>2, <1>6, <1>7
<1> QED
  BY <1>8 DEF e, n

\* The chain that a table keeps is the one its last event vouches for.
LEMMA ChainOfTable ==
    ASSUME NEW table, NEW d, NEW chain, Keeps(table, d, chain)
    PROVE  (IF EventsIn(table, d) = {} THEN <<>> ELSE Last(EventsIn(table, d)).hash) = chain
<1>1. CASE chain = <<>>
  <2>1. EventsOf(chain) = {}
    BY <1>1, EmptySeq DEF EventsOf
  <2> QED
    BY <2>1, <1>1 DEF Keeps
<1>2. CASE chain # <<>>
  <2>1. Len(chain) \in Nat \ {0} /\ SubSeq(chain, 1, Len(chain)) = chain
    BY <1>2, EmptySeq, SubSeqFull DEF Keeps, IsChain
  <2>2. EventsOf(chain) # {}
    BY <2>1 DEF EventsOf
  <2>3. Last(EventsOf(chain)).hash = chain
    BY <1>2, <2>1, LastOfChain DEF Keeps, EventAt
  <2> QED
    BY <2>2, <2>3 DEF Keeps
<1> QED
  BY <1>1, <1>2

\* Chains and their events have their types.
LEMMA EventTypes ==
    ASSUME NEW d, NEW chain, IsChain(chain, d), NEW n \in 1..Len(chain)
    PROVE  /\ EventAt(chain, n) \in Event
           /\ EventAt(chain, n).payload.document = d
           /\ EventAt(chain, n).payload.sequence = n
           /\ Len(SubSeq(chain, 1, n)) = n
           /\ SubSeq(chain, 1, n)[n] = chain[n]
<1>1. chain \in Seq(Payload) /\ Len(chain) \in Nat
  BY LenProperties DEF IsChain
<1>2. chain[n] \in Payload
  BY <1>1, ElementOfSeq
<1>3. ASSUME NEW m \in 0..Len(chain)
      PROVE  /\ SubSeq(chain, 1, m) \in Seq(Payload)
             /\ Len(SubSeq(chain, 1, m)) = m
             /\ \A i \in 1..m : SubSeq(chain, 1, m)[i] = chain[i]
  <2>1. \A i \in 1..m : chain[i] \in Payload
    BY <1>1, ElementOfSeq
  <2> QED
    BY <1>1, <2>1, SubSeqProperties
<1>4. n - 1 \in 0..Len(chain) /\ n \in 0..Len(chain)
  BY <1>1
<1>5. SubSeq(chain, 1, n - 1) \in Seq(Payload) /\ SubSeq(chain, 1, n) \in Seq(Payload)
  BY <1>3, <1>4
<1>6. Len(SubSeq(chain, 1, n)) = n /\ SubSeq(chain, 1, n)[n] = chain[n]
  BY <1>3, <1>4
<1> QED
  BY <1>2, <1>5, <1>6 DEF EventAt, Event, Hash, IsChain

\* One payload more, numbered by its place, makes a chain with one event more.
LEMMA ChainAppended ==
    ASSUME NEW d, NEW chain, IsChain(chain, d), NEW payload \in Payload,
           payload.document = d, payload.sequence = Len(chain) + 1
    PROVE  /\ IsChain(Append(chain, payload), d)
           /\ Len(Append(chain, payload)) = Len(chain) + 1
           /\ SubSeq(Append(chain, payload), 1, Len(chain)) = chain
           /\ Append(chain, payload)[Len(chain) + 1] = payload
           /\ EventsOf(Append(chain, payload)) =
                EventsOf(chain) \cup {[payload |-> payload, previous |-> chain,
                                       hash |-> Append(chain, payload)]}
<1> DEFINE longer == Append(chain, payload)
           k == Len(chain)
<1>1. chain \in Seq(Payload) /\ k \in Nat
  BY LenProperties DEF IsChain
<1>2. /\ longer \in Seq(Payload) /\ Len(longer) = k + 1
      /\ \A i \in 1..k : longer[i] = chain[i]
      /\ longer[k + 1] = payload
  BY <1>1, AppendProperties
<1> HIDE DEF longer
<1>3. IsChain(longer, d)
  BY <1>1, <1>2 DEF IsChain
<1>4. \A m \in 0..k : SubSeq(longer, 1, m) = SubSeq(chain, 1, m)
  <2>1. k <= Len(longer) /\ k <= Len(chain)
    BY <1>1, <1>2
  <2> QED
    BY <2>1, <1>1, <1>2, SamePrefixes
<1>5. SubSeq(chain, 1, k) = chain /\ SubSeq(longer, 1, k + 1) = longer
  BY <1>1, <1>2, SubSeqFull
<1>6. SubSeq(longer, 1, k) = chain
  BY <1>1, <1>4, <1>5
<1>7. ASSUME NEW n \in 1..k
      PROVE  EventAt(longer, n) = EventAt(chain, n)
  <2>1. n \in 0..k /\ n - 1 \in 0..k
    BY <1>1
  <2>2. /\ SubSeq(longer, 1, n - 1) = SubSeq(chain, 1, n - 1)
        /\ SubSeq(longer, 1, n) = SubSeq(chain, 1, n)
    BY <1>4, <2>1
  <2>3. longer[n] = chain[n]
    BY <1>2
  <2> QED
    BY <2>2, <2>3 DEF EventAt
<1>8. EventAt(longer, k + 1) = [payload |-> payload, previous |-> chain, hash |-> longer]
  <2>1. k + 1 - 1 = k
    BY <1>1
  <2>2. SubSeq(longer, 1, k + 1 - 1) = chain
    BY <2>1, <1>6
  <2>3. longer[k + 1] = payload
    BY <1>2
  <2> QED
    BY <2>2, <2>3, <1>5 DEF EventAt
<1>9. EventsOf(longer) = EventsOf(chain) \cup {EventAt(longer, k + 1)}
  <2>1. 1..Len(longer) = 1..k \cup {k + 1}
    BY <1>1, <1>2
  <2> QED
    BY <2>1, <1>7 DEF EventsOf
<1>10. /\ IsChain(longer, d) /\ Len(longer) = k + 1 /\ SubSeq(longer, 1, k) = chain
       /\ longer[k + 1] = payload
       /\ EventsOf(longer) = EventsOf(chain) \cup {[payload |-> payload, previous |-> chain,
                                                   hash |-> longer]}
  BY <1>2, <1>3, <1>6, <1>8, <1>9
<1> QED
  BY <1>10 DEF longer, k

\* The table that keeps a chain has as many events as the chain has payloads,
\* and they are found to be chained.
LEMMA ChainVerifies ==
    ASSUME NEW d, NEW chain, IsChain(chain, d)
    PROVE  /\ Cardinality(EventsOf(chain)) = Len(chain)
           /\ chain # <<>> => ChainVerified(EventsOf(chain))
<1>1. chain \in Seq(Payload) /\ Len(chain) \in Nat
  BY LenProperties DEF IsChain
<1>2. Cardinality(EventsOf(chain)) = Len(chain)
  <2> DEFINE f == [n \in 1..Len(chain) |-> EventAt(chain, n)]
  <2>1. f \in Bijection(1..Len(chain), EventsOf(chain))
    <3>1. f \in [1..Len(chain) -> EventsOf(chain)]
      BY DEF EventsOf
    <3>2. \A m, n \in 1..Len(chain) : f[m] = f[n] => m = n
      BY EventTypes
    <3>3. \A e \in EventsOf(chain) : \E n \in 1..Len(chain) : f[n] = e
      BY DEF EventsOf
    <3> HIDE DEF f
    <3> QED
      BY <3>1, <3>2, <3>3 DEF Bijection, Injection, Surjection, IsInjective
  <2>2. /\ IsFiniteSet(1..Len(chain))
        /\ Cardinality(1..Len(chain)) = Len(chain)
    <3>1. /\ IsFiniteSet(1..Len(chain))
          /\ Cardinality(1..Len(chain)) = IF 1 > Len(chain) THEN 0 ELSE Len(chain) - 1 + 1
      BY <1>1, FS_Interval
    <3> QED
      BY <3>1, <1>1
  <2> HIDE DEF f
  <2>3. ExistsBijection(1..Len(chain), EventsOf(chain))
    BY <2>1 DEF ExistsBijection
  <2> QED
    BY <2>2, <2>3, FS_Bijection
<1>3. ASSUME chain # <<>>
      PROVE  ChainVerified(EventsOf(chain))
  <2>1. EventsOf(chain) # {}
    BY <1>3, EmptySeq DEF IsChain, EventsOf
  <2>2. ASSUME NEW n \in 1..Len(chain), NEW before,
               before = {f \in EventsOf(chain) :
                           f.payload.sequence < EventAt(chain, n).payload.sequence}
        PROVE  /\ EventAt(chain, n).previous = IF before = {} THEN NoHash ELSE Last(before).hash
               /\ EventAt(chain, n).hash =
                    HashOf(EventAt(chain, n).previous, EventAt(chain, n).payload)
    <3> DEFINE shorter == SubSeq(chain, 1, n - 1)
    <3>1. n \in Int /\ n - 1 \in Int /\ n - 1 - 1 + 1 = n - 1 /\ n - 1 < Len(chain)
      BY <1>1
    <3>2. \A i \in 1..Len(chain) : chain[i] \in Payload
      BY <1>1, ElementOfSeq
    <3>3. /\ shorter \in Seq(Payload) /\ Len(shorter) = n - 1
          /\ \A i \in 1..n - 1 : shorter[i] = chain[i]
      <4>1. \A i \in 1..n - 1 : chain[i] \in Payload
        BY <3>1, <3>2, <1>1
      <4>2. /\ SubSeq(chain, 1, n - 1) \in Seq(Payload)
            /\ Len(SubSeq(chain, 1, n - 1)) = IF 1 <= n - 1 THEN n - 1 - 1 + 1 ELSE 0
            /\ \A i \in 1..n - 1 - 1 + 1 : SubSeq(chain, 1, n - 1)[i] = chain[1 + i - 1]
        BY <4>1, <3>1, SubSeqProperties
      <4> QED
        BY <4>2, <1>1
    <3> HIDE DEF shorter
    <3>4. IsChain(shorter, d)
      BY <3>1, <3>3, <1>1 DEF IsChain
    <3>5. Append(shorter, chain[n]) = SubSeq(chain, 1, n)
      <4>1. SubSeq(chain, 1, n) = SubSeq(chain, 1, n - 1) \o <<chain[n]>>
        BY <1>1, SubSeqRecursiveSecond
      <4> QED
        BY <4>1, <3>2, <3>3, AppendIsConcat DEF shorter
    <3>6. /\ EventsOf(Append(shorter, chain[n])) =
               EventsOf(shorter) \cup {EventAt(chain, n)}
          /\ EventAt(chain, n) = [payload |-> chain[n], previous |-> shorter,
                                  hash |-> Append(shorter, chain[n])]
      <4>1. chain[n].document = d /\ chain[n].sequence = Len(shorter) + 1
        BY <3>3, <1>1 DEF IsChain
      <4>2. EventAt(chain, n) = [payload |-> chain[n], previous |-> shorter,
                                 hash |-> Append(shorter, chain[n])]
        BY <3>5 DEF EventAt, shorter
      <4> QED
        BY <4>1, <4>2, <3>2, <3>4, ChainAppended
    <3>7. before = EventsOf(shorter)
      <4>1. ASSUME NEW m \in 1..n - 1
            PROVE  EventAt(shorter, m) = EventAt(chain, m)
        <5>1. shorter[m] = chain[m]
          BY <3>3
        <5>2. n - 1 \in Nat /\ n - 1 <= Len(shorter) /\ n - 1 <= Len(chain)
          BY <3>3, <1>1
        <5>3. \A i \in 0..n - 1 : SubSeq(shorter, 1, i) = SubSeq(chain, 1, i)
          BY <5>2, <3>3, <1>1, SamePrefixes
        <5>4. m \in 0..n - 1 /\ m - 1 \in 0..n - 1
          BY <1>1
        <5> QED
          BY <5>1, <5>3, <5>4 DEF EventAt
      <4>2. EventsOf(shorter) = {EventAt(chain, m) : m \in 1..n - 1}
        BY <3>3, <4>1 DEF EventsOf
      <4>3. \A m \in 1..Len(chain) : EventAt(chain, m).payload.sequence = m
        BY EventTypes
      <4>4. before = {EventAt(chain, m) : m \in 1..n - 1}
        BY <2>2, <4>3, <1>1 DEF EventsOf
      <4> QED
        BY <4>2, <4>4
    <3>8. CASE shorter = <<>>
      <4>1. before = {}
        BY <3>8, <3>7, EmptySeq DEF EventsOf
      <4> QED
        BY <4>1, <3>6, <3>8 DEF NoHash, HashOf
    <3>9. CASE shorter # <<>>
      <4>1. before # {} /\ Last(before).hash = shorter
        <5>1. Len(shorter) \in Nat \ {0} /\ SubSeq(shorter, 1, Len(shorter)) = shorter
          BY <3>9, <3>3, EmptySeq, SubSeqFull
        <5>2. EventsOf(shorter) # {}
          BY <5>1 DEF EventsOf
        <5>3. Last(EventsOf(shorter)) = EventAt(shorter, Len(shorter))
          BY <3>4, <3>9, LastOfChain
        <5> QED
          BY <5>1, <5>2, <5>3, <3>7 DEF EventAt
      <4> QED
        BY <4>1, <3>6 DEF HashOf
    <3> QED
      BY <3>8, <3>9
  <2>3. \A n \in 1..Len(chain) :
          LET e == EventAt(chain, n)
              before == {f \in EventsOf(chain) : f.payload.sequence < e.payload.sequence}
          IN  /\ e.previous = IF before = {} THEN NoHash ELSE Last(before).hash
              /\ e.hash = HashOf(e.previous, e.payload)
    BY <2>2
  <2>4. \A e \in EventsOf(chain) : \E n \in 1..Len(chain) : e = EventAt(chain, n)
    BY DEF EventsOf
  <2> QED
    BY <2>1, <2>3, <2>4, Zenon DEF ChainVerified
<1> QED
  BY <1>2, <1>3

-----------------------------------------------------------------------------
(* The invariant of the chains *)

Locked(s) == session[s].pc \in {"flushed", "linked"}

\* The events of a document are those of its chain.
ChainsSound == \A d \in Doc : Keeps(attempts, d, Chain(d))

\* Each attempt is of a session that is over, and no session has two.
ActorsAreDone ==
    \A e \in attempts :
        /\ session[e.payload.actor].pc \in {"answered", "failed"}
        /\ \A f \in attempts : e.payload.actor = f.payload.actor => e = f

\* One transaction at a time has a row locked.
LocksExclude ==
    \A s, t \in Session : Locked(s) /\ Locked(t) /\ Target(s) = Target(t) => s = t

\* So what it has read of the chain is still the end of the chain.
LinksSound ==
    \A s \in Session : session[s].pc = "linked" =>
        /\ session[s].sequence = Len(Chain(Target(s))) + 1
        /\ session[s].previous = Chain(Target(s))

\* No row, and no row that a session has loaded, counts attempts nobody made.
CountsBounded ==
    /\ \A d \in Doc : rows[d].count <= Len(Chain(d)) + Unchained(d)
    /\ \A s \in Session : InTransaction(s) =>
         session[s].loaded.count <= Len(Chain(Target(s))) + Unchained(Target(s))
    /\ \A s \in Session : Locked(s) => session[s].row.count = session[s].loaded.count + 1

\* The vault is asked to store received bytes only.
BytesAtHand ==
    \A s \in Session : session[s].pc \in {"storing", "writing"} => session[s].content # NoContent

ChainInv ==
    /\ CustodyTypeOK
    /\ BytesAtHand
    /\ ChainsSound
    /\ ActorsAreDone
    /\ LocksExclude
    /\ LinksSound
    /\ CountsBounded

-----------------------------------------------------------------------------
(* The invariants of the vault, of the row and of the report *)

\* The vault has had the bytes that it gave out this address for.
Kept(uri, content) == VaultEnabled /\ uri = content /\ file[uri] # "absent"

ReceiptSound(t) ==
    /\ t.pc \in {"new", "storing", "writing"} => t.uri = NoContent
    /\ t.pc \in {"storing", "writing"} => VaultEnabled
    /\ t.storage = "STORED" <=> t.uri # NoContent
    /\ t.uri # NoContent => Kept(t.uri, t.content)

VaultInv ==
    /\ \A s \in Session : ReceiptSound(session[s])
    /\ \A e \in attempts : e.payload.uri # NoContent => Kept(e.payload.uri, e.payload.content)

\* Something has been stored at the address, if it is one.
KeptAt(uri) == uri # NoContent => VaultEnabled /\ file[uri] # "absent"

\* No row, and none that a transaction will commit, names any other address.
AddressesKept ==
    /\ \A d \in Doc : KeptAt(rows[d].uri)
    /\ \A s \in Session : Locked(s) => KeptAt(session[s].row.uri)

\* A transaction that no other has overlapped is alone, has loaded the row as
\* it is, and will set it to what it got.
AloneIsCurrent ==
    \A s \in Session : InTransaction(s) /\ Target(s) \notin overlapped =>
        /\ session[s].loaded = rows[Target(s)]
        /\ \A t \in Session : InTransaction(t) /\ Target(t) = Target(s) => t = s
        /\ Locked(s) => session[s].row = Assigned(s)

RowInv == AloneIsCurrent /\ CounterIsChainLength /\ RowDescribesLastAttempt

\* The chains account for these rows.
RowsAccounted(table) ==
    \A d \in Doc :
        /\ table[d].count <= Len(Chain(d)) + Unchained(d)
        /\ table[d] # NoRow => Chain(d) # <<>> \/ d \in upgraded

ReportInv ==
    /\ RowsAccounted(rows)
    /\ reader.pc = "rows_read" => RowsAccounted(reader.rows)
    /\ ReportHoldsTogether

-----------------------------------------------------------------------------
(* Types *)

LEMMA SessionsAreCounted == Cardinality(Session) \in Nat
BY SessionAssumption, FS_CardinalityType

LEMMA RowTypes ==
    /\ NoRow \in Row
    /\ \A x \in Received : UpgradedRow(x) \in Row
<1>1. 0 \in 0..Cardinality(Session) + 1 /\ 1 \in 0..Cardinality(Session) + 1
  BY SessionsAreCounted
<1>2. NoRow \in Row
  BY <1>1 DEF NoRow, Row, Verification, Received
<1>3. ASSUME NEW x \in Received
      PROVE  UpgradedRow(x) \in Row
  BY <1>1, <1>2, <1>3, InspectedAssumption DEF UpgradedRow, NoRow, Row
<1> QED
  BY <1>2, <1>3

LEMMA TargetTypes == \A s \in Session : Target(s) \in Doc
BY DocumentOfAssumption DEF Target, IsFetch, Session

\* The document of a session that is open has an event less than there are
\* sessions, for each event has a session of its own that is over.
LEMMA ChainLeavesRoom ==
    ASSUME ChainInv, NEW d \in Doc, NEW s \in Session,
           session[s].pc \notin {"answered", "failed"}
    PROVE  Len(Chain(d)) + 1 \in 1..Cardinality(Session)
<1> DEFINE chain == Chain(d)
           k == Len(chain)
           f == [n \in 1..k + 1 |-> IF n <= k THEN chain[n].actor ELSE s]
<1>1. IsChain(chain, d) /\ Events(d) = EventsOf(chain) /\ k \in Nat
  <2>1. Keeps(attempts, d, chain)
    BY DEF ChainInv, ChainsSound
  <2> QED
    BY <2>1, LenProperties DEF Keeps, IsChain, Events
<1> HIDE DEF chain, k
<1>2. ASSUME NEW n \in 1..k
      PROVE  /\ EventAt(chain, n) \in attempts
             /\ EventAt(chain, n).payload = chain[n]
             /\ chain[n].actor \in Session
             /\ chain[n].actor # s
             /\ chain[n].sequence = n
  <2>1. EventAt(chain, n) \in attempts
    BY <1>1 DEF Events, EventsIn, EventsOf, k
  <2>2. EventAt(chain, n).payload = chain[n]
    BY DEF EventAt
  <2>3. chain[n] \in Payload
    BY <1>1, ElementOfSeq DEF IsChain, k
  <2>4. session[chain[n].actor].pc \in {"answered", "failed"}
    BY <2>1, <2>2 DEF ChainInv, ActorsAreDone
  <2>5. chain[n].sequence = n
    BY <1>1 DEF IsChain, k
  <2> QED
    BY <2>1, <2>2, <2>3, <2>4, <2>5 DEF Payload
<1>3. ASSUME NEW m \in 1..k, NEW n \in 1..k, chain[m].actor = chain[n].actor
      PROVE  m = n
  <2>1. EventAt(chain, m) = EventAt(chain, n)
    BY <1>2, <1>3 DEF ChainInv, ActorsAreDone
  <2> QED
    BY <2>1, <1>2
<1>4. f \in [1..k + 1 -> Session]
  BY <1>1, <1>2
<1>5. ASSUME NEW m \in 1..k + 1, NEW n \in 1..k + 1, f[m] = f[n]
      PROVE  m = n
  <2>1. CASE m <= k /\ n <= k
    BY <2>1, <1>1, <1>3, <1>5
  <2>2. CASE m <= k /\ ~(n <= k)
    BY <2>2, <1>1, <1>2, <1>5
  <2>3. CASE ~(m <= k) /\ n <= k
    BY <2>3, <1>1, <1>2, <1>5
  <2>4. CASE ~(m <= k) /\ ~(n <= k)
    BY <2>4, <1>1
  <2> QED
    BY <2>1, <2>2, <2>3, <2>4
<1> HIDE DEF f
<1>6. f \in Injection(1..k + 1, Session)
  BY <1>4, <1>5 DEF Injection, IsInjective
<1>7. Cardinality(1..k + 1) <= Cardinality(Session)
  BY <1>6, SessionAssumption, FS_Injection
<1>8. Cardinality(1..k + 1) = k + 1
  BY <1>1, FS_Interval
<1> QED
  BY <1>1, <1>7, <1>8, SessionsAreCounted DEF k, chain

-----------------------------------------------------------------------------
(* Steps that no chain and no transaction sees *)

\* What a session did that has no part in a transaction now.
Outside(t) ==
    /\ session[t].pc \notin {"answered", "failed"}
    /\ session'[t].pc \notin {"loaded", "flushed", "linked", "conflict"}
    /\ session'[t].pc \in {"storing", "writing"} => session'[t].content # NoContent

LEMMA QuietStep ==
    ASSUME ChainInv, CustodyTypeOK', UNCHANGED <<rows, attempts, upgraded>>,
           \A t \in Session : session'[t] = session[t] \/ Outside(t)
    PROVE  ChainInv'
<1>1. \A d \in Doc : Chain(d)' = Chain(d) /\ Unchained(d)' = Unchained(d)
  BY DEF Chain, Events, Unchained
<1>2. ChainsSound'
  BY <1>1 DEF ChainInv, ChainsSound
<1>3. ActorsAreDone'
  <2> SUFFICES ASSUME NEW e \in attempts
               PROVE  session'[e.payload.actor].pc \in {"answered", "failed"}
    BY DEF ChainInv, ActorsAreDone
  <2>1. e.payload.actor \in Session
    BY DEF ChainInv, CustodyTypeOK, Event, Payload
  <2> QED
    BY <2>1 DEF ChainInv, ActorsAreDone, Outside
<1>4. \A t \in Session :
        /\ Locked(t)' => Locked(t)
        /\ InTransaction(t)' => InTransaction(t)
        /\ InTransaction(t)' => session'[t] = session[t]
        /\ Locked(t)' => session'[t] = session[t]
        /\ session'[t].pc = "linked" => session'[t] = session[t]
  BY DEF Locked, InTransaction, Outside
<1>5. LocksExclude'
  BY <1>4 DEF ChainInv, LocksExclude
<1>6. LinksSound'
  BY <1>1, <1>4, TargetTypes DEF ChainInv, LinksSound
<1>7. CountsBounded'
  BY <1>1, <1>4, TargetTypes DEF ChainInv, CountsBounded
<1>8. BytesAtHand'
  BY DEF ChainInv, BytesAtHand, Outside
<1> QED
  BY <1>2, <1>3, <1>5, <1>6, <1>7, <1>8 DEF ChainInv

\* A session that moves, moves alone.
LEMMA Moves ==
    ASSUME session \in [Session -> SessionState], NEW s \in Session, NEW next \in SessionState,
           session' = [session EXCEPT ![s] = next]
    PROVE  /\ session' \in [Session -> SessionState]
           /\ session'[s] = next
           /\ \A t \in Session \ {s} : session'[t] = session[t]
OBVIOUS

\* Up to its transaction, and when it fails, a session changes nothing of the
\* tables, and the vault never loses what it has.
LEMMA BesideTransactions ==
    ASSUME CustodyTypeOK, BytesAtHand, NEW s \in Session,
           \/ \E x \in Received : Begin(s, x)
           \/ LookUp(s) \/ Replace(s) \/ StorageFails(s) \/ Fail(s)
    PROVE  /\ CustodyTypeOK'
           /\ UNCHANGED <<rows, attempts, reader, upgraded, overlapped>>
           /\ Outside(s)
           /\ \A t \in Session \ {s} : session'[t] = session[t]
           /\ \A x \in Content : file[x] # "absent" => file'[x] # "absent"
<1> DEFINE pcs == {"storing", "writing", "stored", "failed"}
           Now(next) == session' = [session EXCEPT ![s] = next]
           Result == /\ \E next \in SessionState :
                          /\ Now(next)
                          /\ next.pc \in pcs
                          /\ next.pc \in {"storing", "writing"} => next.content # NoContent
                     /\ session[s].pc \notin {"answered", "failed"}
                     /\ UNCHANGED <<rows, attempts, reader, upgraded, overlapped>>
                     /\ file' \in [Content -> {"absent", "intact", "damaged", "lost"}]
                     /\ \A x \in Content : file[x] # "absent" => file'[x] # "absent"
<1>1. /\ session \in [Session -> SessionState]
      /\ session[s] \in SessionState
      /\ file \in [Content -> {"absent", "intact", "damaged", "lost"}]
  BY DEF CustodyTypeOK
<1>2. session[s].pc \in {"storing", "writing"} => session[s].content \in Content
  BY <1>1 DEF BytesAtHand, SessionState, Received
<1>3. ASSUME NEW x \in Received, Begin(s, x)
      PROVE  Result
  <2> DEFINE next == [session[s] EXCEPT !.content = x,
                                        !.pc = IF x # NoContent /\ VaultEnabled
                                                 THEN "storing" ELSE "stored"]
  <2>1. Now(next)
    BY <1>1, <1>3 DEF Begin
  <2>2. /\ next \in SessionState /\ next.pc \in pcs
        /\ next.pc \in {"storing", "writing"} => next.content # NoContent
    BY <1>1 DEF SessionState
  <2> HIDE DEF next
  <2> QED
    BY <2>1, <2>2, <1>1, <1>3 DEF Begin, history
<1> DEFINE kept == [session[s] EXCEPT !.pc = "stored", !.storage = "STORED",
                                      !.uri = session[s].content]
           moved(pc) == [session[s] EXCEPT !.pc = pc]
<1>4. /\ Stored(s) = [session EXCEPT ![s] = kept]
      /\ kept \in SessionState /\ kept.pc = "stored"
  BY <1>1 DEF Stored, SessionState
<1>5. \A pc \in {"writing", "failed"} :
        /\ moved(pc) \in SessionState /\ moved(pc).pc = pc
        /\ moved(pc).content = session[s].content
        /\ [session EXCEPT ![s].pc = pc] = [session EXCEPT ![s] = moved(pc)]
  BY <1>1 DEF SessionState
<1> HIDE DEF kept, moved
<1>6. ASSUME LookUp(s)
      PROVE  Result
  <2>1. \/ Now(kept)
        \/ \E pc \in {"writing", "failed"} : Now(moved(pc))
    <3>1. file[session[s].content] \in {"absent", "intact", "damaged", "lost"}
      BY <1>1, <1>2, <1>6 DEF LookUp
    <3> QED
      BY <3>1, <1>4, <1>5, <1>6 DEF LookUp
  <2>2. /\ session[s].pc \notin {"answered", "failed"}
        /\ UNCHANGED <<rows, attempts, reader, upgraded, overlapped>> /\ file' = file
    BY <1>6 DEF LookUp, history
  <2>3. session[s].content # NoContent
    BY <1>2, <1>6, ContentAssumption DEF LookUp
  <2>4. CASE Now(kept)
    BY <2>2, <2>4, <1>1, <1>4
  <2>5. ASSUME NEW pc \in {"writing", "failed"}, Now(moved(pc))
        PROVE  Result
    <3>1. /\ moved(pc) \in SessionState /\ moved(pc).pc \in pcs
          /\ moved(pc).content # NoContent
      BY <1>5, <2>3
    <3> QED
      BY <2>2, <2>5, <3>1, <1>1
  <2> QED
    BY <2>1, <2>4, <2>5
<1>7. ASSUME Replace(s)
      PROVE  Result
  BY <1>1, <1>4, <1>7 DEF Replace, history
<1>8. ASSUME StorageFails(s)
      PROVE  Result
  <2> DEFINE next == [session[s] EXCEPT !.pc = "stored", !.storage = "STORAGE_UNAVAILABLE"]
  <2>1. Now(next)
    BY <1>1, <1>8 DEF StorageFails
  <2>2. next \in SessionState /\ next.pc = "stored"
    BY <1>1 DEF SessionState
  <2> HIDE DEF next
  <2> QED
    BY <2>1, <2>2, <1>1, <1>8 DEF StorageFails, history
<1>9. ASSUME Fail(s)
      PROVE  Result
  BY <1>1, <1>5, <1>9 DEF Fail, Goes, Over, history
<1>10. Result
  BY <1>3, <1>6, <1>7, <1>8, <1>9
<1>11. PICK next \in SessionState :
         /\ Now(next)
         /\ next.pc \in pcs
         /\ next.pc \in {"storing", "writing"} => next.content # NoContent
  BY <1>10
<1>12. /\ session' \in [Session -> SessionState]
       /\ session'[s] = next
       /\ \A t \in Session \ {s} : session'[t] = session[t]
  BY <1>1, <1>11, Moves
<1>13. Outside(s)
  BY <1>10, <1>11, <1>12 DEF Outside
<1> QED
  BY <1>10, <1>12, <1>13 DEF CustodyTypeOK

-----------------------------------------------------------------------------
(* The steps of a transaction *)

\* The row as it is, is loaded into the session.
LEMMA LoadMoves ==
    ASSUME CustodyTypeOK, NEW s \in Session, Load(s)
    PROVE  /\ CustodyTypeOK'
           /\ UNCHANGED <<rows, attempts, file, reader, upgraded>>
           /\ overlapped \subseteq overlapped'
           /\ \A t \in Session \ {s} : session'[t] = session[t]
           /\ session[s].pc = "stored"
           /\ session'[s] = [session[s] EXCEPT !.loaded = rows[Target(s)], !.pc = session'[s].pc]
           /\ session'[s].pc \in {"loaded", "answered", "refused"}
           /\ session'[s].pc = "loaded" =>
                \A t \in Session : Target(t) = Target(s) /\ InTransaction(t) =>
                  Target(s) \in overlapped'
<1> DEFINE pc == IF IsFetch(s) # HasRow(Target(s)) THEN "loaded"
                 ELSE IF IsFetch(s) THEN "answered" ELSE "refused"
           next == [session[s] EXCEPT !.loaded = rows[Target(s)], !.pc = pc]
<1>1. pc \in {"loaded", "answered", "refused"}
      /\ (pc = "loaded" <=> IsFetch(s) # HasRow(Target(s)))
  OBVIOUS
<1>2. /\ session \in [Session -> SessionState] /\ rows[Target(s)] \in Row
      /\ session[s].pc = "stored" /\ UNCHANGED <<rows, attempts, file, reader, upgraded>>
  BY TargetTypes DEF CustodyTypeOK, Load
<1>3. session' = [session EXCEPT ![s].loaded = rows[Target(s)], ![s].pc = pc]
  BY DEF Load
<1> HIDE DEF pc
<1>4. next \in SessionState /\ session' = [session EXCEPT ![s] = next]
  BY <1>1, <1>2, <1>3 DEF SessionState
<1>5. next.pc = pc /\ next = [session[s] EXCEPT !.loaded = rows[Target(s)], !.pc = next.pc]
  BY <1>2 DEF SessionState
<1> HIDE DEF next
<1>6. /\ session' \in [Session -> SessionState] /\ session'[s] = next
      /\ \A t \in Session \ {s} : session'[t] = session[t]
  BY <1>2, <1>4, Moves
<1>7. overlapped' = IF /\ IsFetch(s) # HasRow(Target(s))
                       /\ \E t \in Session : Target(t) = Target(s) /\ InTransaction(t)
                      THEN overlapped \cup {Target(s)} ELSE overlapped
  BY DEF Load
<1>8. overlapped' \subseteq Doc /\ overlapped \subseteq overlapped'
  BY <1>7, TargetTypes DEF CustodyTypeOK
<1>9. CustodyTypeOK'
  BY <1>2, <1>6, <1>8 DEF CustodyTypeOK
<1>10. pc = "loaded" => \A t \in Session : Target(t) = Target(s) /\ InTransaction(t) =>
         Target(s) \in overlapped'
  BY <1>1, <1>7
<1> QED
  BY <1>1, <1>2, <1>5, <1>6, <1>8, <1>9, <1>10

LEMMA LoadKeeps ==
    ASSUME ChainInv, NEW s \in Session, Load(s)
    PROVE  ChainInv'
<1>1. /\ CustodyTypeOK' /\ UNCHANGED <<rows, attempts, upgraded>>
      /\ \A t \in Session \ {s} : session'[t] = session[t]
      /\ session[s].pc = "stored"
      /\ session'[s] = [session[s] EXCEPT !.loaded = rows[Target(s)], !.pc = session'[s].pc]
      /\ session'[s].pc \in {"loaded", "answered", "refused"}
  BY LoadMoves DEF ChainInv
<1>2. session[s] \in SessionState
  BY DEF ChainInv, CustodyTypeOK
<1>3. session'[s].loaded = rows[Target(s)]
  BY <1>1, <1>2 DEF SessionState
<1>4. \A d \in Doc : Chain(d)' = Chain(d) /\ Unchained(d)' = Unchained(d)
  BY <1>1 DEF Chain, Events, Unchained
<1>5. ChainsSound'
  BY <1>1, <1>4 DEF ChainInv, ChainsSound
<1>6. ActorsAreDone'
  <2>1. \A e \in attempts : e.payload.actor \in Session
    BY DEF ChainInv, CustodyTypeOK, Event, Payload
  <2> QED
    BY <1>1, <2>1 DEF ChainInv, ActorsAreDone
<1>7. LocksExclude' /\ LinksSound' /\ BytesAtHand'
  <2>1. LocksExclude'
    BY <1>1 DEF ChainInv, LocksExclude, Locked
  <2>2. LinksSound'
    BY <1>1, <1>4, TargetTypes DEF ChainInv, LinksSound
  <2>3. BytesAtHand'
    BY <1>1 DEF ChainInv, BytesAtHand
  <2> QED
    BY <2>1, <2>2, <2>3
<1>8. CountsBounded'
  <2>1. \A d \in Doc : rows'[d].count <= Len(Chain(d)') + Unchained(d)'
    BY <1>1, <1>4 DEF ChainInv, CountsBounded
  <2>2. \A t \in Session : InTransaction(t)' =>
          session'[t].loaded.count <= Len(Chain(Target(t))') + Unchained(Target(t))'
    <3> TAKE t \in Session
    <3>1. CASE t = s
      BY <3>1, <1>1, <1>3, <2>1, TargetTypes
    <3>2. CASE t # s
      BY <3>2, <1>1, <1>4, TargetTypes DEF ChainInv, CountsBounded, InTransaction
    <3> QED
      BY <3>1, <3>2
  <2>3. \A t \in Session : Locked(t)' => session'[t].row.count = session'[t].loaded.count + 1
    BY <1>1 DEF ChainInv, CountsBounded, Locked
  <2> QED
    BY <2>1, <2>2, <2>3 DEF CountsBounded
<1> QED
  BY <1>1, <1>5, <1>6, <1>7, <1>8 DEF ChainInv

\* What a session assigns, and what of it the UPDATE sets, are rows, and count
\* one attempt more than the row that was loaded.
LEMMA FlushedTypes ==
    ASSUME ChainInv, NEW s \in Session, session[s].pc = "loaded"
    PROVE  /\ Assigned(s) \in Row
           /\ Flushed(s) \in Row
           /\ Flushed(s).count = session[s].loaded.count + 1
<1>1. /\ session[s] \in SessionState /\ rows[Target(s)] \in Row
      /\ Inspected \in [Received -> [status : Status, verification : Verification]]
  BY InspectedAssumption, TargetTypes DEF ChainInv, CustodyTypeOK
<1>2. /\ session[s].content \in Received /\ session[s].uri \in Received
      /\ session[s].storage \in {"NOT_STORED", "STORED", "STORAGE_UNAVAILABLE"}
      /\ session[s].loaded \in Row
  BY <1>1 DEF SessionState
<1>3. session[s].loaded.count + 1 \in 0..Cardinality(Session) + 1
  <2>1. Len(Chain(Target(s))) + 1 \in 1..Cardinality(Session)
    BY ChainLeavesRoom, TargetTypes
  <2>2. session[s].loaded.count <= Len(Chain(Target(s))) + Unchained(Target(s))
    BY DEF ChainInv, CountsBounded, InTransaction
  <2>3. Len(Chain(Target(s))) \in Nat
    BY TargetTypes, LenProperties DEF ChainInv, ChainsSound, Keeps, IsChain
  <2>4. session[s].loaded.count \in Nat
    BY <1>2, SessionsAreCounted DEF Row
  <2> QED
    BY <2>1, <2>2, <2>3, <2>4, SessionsAreCounted DEF Unchained
<1>4. /\ Acquired(s) \in [status : Status, verification : Verification, content : Received,
                          uri : Received,
                          storage : {"NOT_STORED", "STORED", "STORAGE_UNAVAILABLE"},
                          method : {"PUBLIC_HTTP", "REVIEWER_IMPORT"}, count : {1}]
  BY <1>1, <1>2 DEF Acquired
<1>5. Assigned(s) \in Row /\ Assigned(s).count = session[s].loaded.count + 1
  BY <1>3, <1>4 DEF Assigned, Row
<1>6. Flushed(s) \in Row /\ Flushed(s).count = session[s].loaded.count + 1
  <2> DEFINE assigned == Assigned(s)
             loaded == session[s].loaded
             persisted == rows[Target(s)]
             merged == [column \in DOMAIN assigned |->
                          IF assigned[column] = loaded[column] THEN persisted[column]
                                                               ELSE assigned[column]]
  <2>1. Flushed(s) = IF loaded = NoRow THEN assigned ELSE merged
    BY DEF Flushed
  <2>2. assigned \in Row /\ loaded \in Row /\ persisted \in Row
        /\ assigned.count = loaded.count + 1
    BY <1>1, <1>2, <1>5
  <2> HIDE DEF assigned, loaded, persisted
  <2>3. DOMAIN assigned = {"status", "verification", "content", "uri", "storage", "method", "count"}
    BY <2>2 DEF Row
  <2>4. loaded.count \in Nat
    BY <2>2, SessionsAreCounted DEF Row
  <2>5. merged.count = loaded.count + 1
    BY <2>2, <2>3, <2>4
  <2>6. merged \in Row
    <3>1. merged = [status |-> merged.status, verification |-> merged.verification,
                    content |-> merged.content, uri |-> merged.uri,
                    storage |-> merged.storage, method |-> merged.method,
                    count |-> merged.count]
      BY <2>3
    <3>2. /\ merged.status \in {"NONE"} \cup Status /\ merged.verification \in Verification
          /\ merged.content \in Received /\ merged.uri \in Received
          /\ merged.storage \in {"NOT_STORED", "STORED", "STORAGE_UNAVAILABLE"}
          /\ merged.method \in {"PUBLIC_HTTP", "REVIEWER_IMPORT"}
          /\ merged.count \in 0..Cardinality(Session) + 1
      BY <2>2, <2>3 DEF Row
    <3> HIDE DEF merged
    <3> QED
      BY <3>1, <3>2 DEF Row
  <2> QED
    BY <2>1, <2>2, <2>5, <2>6 DEF loaded
<1> QED
  BY <1>5, <1>6

LEMMA FlushKeeps ==
    ASSUME ChainInv, NEW s \in Session, Flush(s)
    PROVE  /\ ChainInv'
           /\ session'[s] = [session[s] EXCEPT !.pc = "flushed", !.row = Flushed(s)]
           /\ \A t \in Session \ {s} : session'[t] = session[t]
<1> DEFINE next == [session[s] EXCEPT !.pc = "flushed", !.row = Flushed(s)]
<1>1. /\ session \in [Session -> SessionState] /\ session[s] \in SessionState
      /\ session[s].pc = "loaded" /\ ~RowLocked(Target(s))
      /\ UNCHANGED <<rows, attempts, file, reader, upgraded, overlapped>>
  BY DEF Flush, ChainInv, CustodyTypeOK, history
<1>2. next \in SessionState /\ session' = [session EXCEPT ![s] = next]
  BY <1>1, FlushedTypes DEF Flush, SessionState
<1>3. /\ next.pc = "flushed" /\ next.loaded = session[s].loaded
      /\ next.row.count = session[s].loaded.count + 1
  BY <1>1, FlushedTypes DEF SessionState
<1> HIDE DEF next
<1>4. /\ session' \in [Session -> SessionState] /\ session'[s] = next
      /\ \A t \in Session \ {s} : session'[t] = session[t]
  BY <1>1, <1>2, Moves
<1>5. \A d \in Doc : Chain(d)' = Chain(d) /\ Unchained(d)' = Unchained(d)
  BY <1>1 DEF Chain, Events, Unchained
<1>6. CustodyTypeOK'
  BY <1>1, <1>4 DEF ChainInv, CustodyTypeOK
<1>7. ChainsSound'
  BY <1>1, <1>5 DEF ChainInv, ChainsSound
<1>8. ActorsAreDone'
  <2>1. \A e \in attempts : e.payload.actor \in Session \ {s}
    BY <1>1 DEF ChainInv, CustodyTypeOK, Event, Payload, ActorsAreDone
  <2> QED
    BY <1>1, <1>4, <2>1 DEF ChainInv, ActorsAreDone
<1>9. LocksExclude'
  BY <1>1, <1>4 DEF ChainInv, LocksExclude, Locked, RowLocked
<1>10. LinksSound' /\ BytesAtHand'
  <2>1. LinksSound'
    BY <1>3, <1>4, <1>5, TargetTypes DEF ChainInv, LinksSound
  <2>2. BytesAtHand'
    BY <1>3, <1>4 DEF ChainInv, BytesAtHand
  <2> QED
    BY <2>1, <2>2
<1>11. CountsBounded'
  <2>1. \A t \in Session : InTransaction(t)' =>
          InTransaction(t) /\ session'[t].loaded = session[t].loaded
    BY <1>1, <1>3, <1>4 DEF InTransaction
  <2>2. \A t \in Session : Locked(t)' => session'[t].row.count = session'[t].loaded.count + 1
    BY <1>3, <1>4 DEF ChainInv, CountsBounded, Locked
  <2>3. \A d \in Doc : rows'[d].count <= Len(Chain(d)') + Unchained(d)'
    BY <1>1, <1>5 DEF ChainInv, CountsBounded
  <2>4. \A t \in Session : InTransaction(t)' =>
          session'[t].loaded.count <= Len(Chain(Target(t))') + Unchained(Target(t))'
    BY <1>5, <2>1, TargetTypes DEF ChainInv, CountsBounded
  <2> QED
    BY <2>2, <2>3, <2>4 DEF CountsBounded
<1> QED
  BY <1>4, <1>6, <1>7, <1>8, <1>9, <1>10, <1>11 DEF ChainInv, next

\* The chain that a session reads is linked to its end.
LEMMA LinkKeeps ==
    ASSUME ChainInv, NEW s \in Session, ReadPrevious(s)
    PROVE  /\ ChainInv'
           /\ session'[s] = [session[s] EXCEPT !.pc = "linked",
                                               !.sequence = Len(Chain(Target(s))) + 1,
                                               !.previous = Chain(Target(s))]
           /\ \A t \in Session \ {s} : session'[t] = session[t]
<1> DEFINE chain == Chain(Target(s))
           next == [session[s] EXCEPT !.pc = "linked", !.sequence = Len(chain) + 1,
                                      !.previous = chain]
<1>1. /\ session \in [Session -> SessionState] /\ session[s] \in SessionState
      /\ session[s].pc = "flushed"
      /\ UNCHANGED <<rows, attempts, file, reader, upgraded, overlapped>>
  BY DEF ReadPrevious, ChainInv, CustodyTypeOK, history
<1>2. /\ IsChain(chain, Target(s)) /\ Events(Target(s)) = EventsOf(chain)
      /\ chain \in Hash /\ Len(chain) \in Nat
      /\ Len(chain) + 1 \in 0..Cardinality(Session)
  <2>1. Keeps(attempts, Target(s), chain)
    BY TargetTypes DEF ChainInv, ChainsSound
  <2>2. Len(chain) + 1 \in 1..Cardinality(Session)
    BY <1>1, ChainLeavesRoom, TargetTypes
  <2> QED
    BY <2>1, <2>2, LenProperties, SessionsAreCounted DEF Keeps, IsChain, Events, Hash
<1>3. session' = [session EXCEPT ![s].pc = "linked", ![s].sequence = Len(chain) + 1,
                                 ![s].previous = chain]
  <2> DEFINE events == Events(Target(s))
  <2>1. (events = {}) <=> (chain = <<>>)
    BY <1>2, EmptySeq DEF EventsOf, IsChain
  <2>2. events # {} => Last(events).payload.sequence = Len(chain)
    <3>1. chain # <<>> => Last(EventsOf(chain)) = EventAt(chain, Len(chain))
      BY <1>2, LastOfChain
    <3>2. chain # <<>> => chain[Len(chain)].sequence = Len(chain)
      BY <1>2, EmptySeq DEF IsChain
    <3> QED
      BY <1>2, <2>1, <3>1, <3>2 DEF EventAt
  <2>3. chain = IF events = {} THEN NoHash ELSE Previous(events).hash
    BY DEF Chain, Previous, NoHash
  <2>4. Len(chain) + 1 = IF events = {} THEN 1 ELSE Last(events).payload.sequence + 1
    BY <2>1, <2>2, EmptySeq
  <2>5. session' = [session EXCEPT
          ![s].pc = "linked",
          ![s].sequence = IF events = {} THEN 1 ELSE Last(events).payload.sequence + 1,
          ![s].previous = IF events = {} THEN NoHash ELSE Previous(events).hash]
    BY DEF ReadPrevious
  <2> QED
    BY <2>3, <2>4, <2>5
<1>4. next \in SessionState /\ session' = [session EXCEPT ![s] = next]
  BY <1>1, <1>2, <1>3 DEF SessionState
<1>5. /\ next.pc = "linked" /\ next.loaded = session[s].loaded /\ next.row = session[s].row
      /\ next.sequence = Len(chain) + 1 /\ next.previous = chain
  BY <1>1 DEF SessionState
<1>6. next = [session[s] EXCEPT !.pc = "linked", !.sequence = Len(Chain(Target(s))) + 1,
                                !.previous = Chain(Target(s))]
  OBVIOUS
<1> HIDE DEF next
<1>7. /\ session' \in [Session -> SessionState] /\ session'[s] = next
      /\ \A t \in Session \ {s} : session'[t] = session[t]
  BY <1>1, <1>4, Moves
<1>8. \A d \in Doc : Chain(d)' = Chain(d) /\ Unchained(d)' = Unchained(d)
  BY <1>1 DEF Chain, Events, Unchained
<1>9. CustodyTypeOK'
  BY <1>1, <1>7 DEF ChainInv, CustodyTypeOK
<1>10. ChainsSound'
  BY <1>1, <1>8 DEF ChainInv, ChainsSound
<1>11. ActorsAreDone'
  <2>1. \A e \in attempts : e.payload.actor \in Session \ {s}
    BY <1>1 DEF ChainInv, CustodyTypeOK, Event, Payload, ActorsAreDone
  <2> QED
    BY <1>1, <1>7, <2>1 DEF ChainInv, ActorsAreDone
<1>12. LocksExclude'
  BY <1>1, <1>5, <1>7 DEF ChainInv, LocksExclude, Locked
<1>13. LinksSound' /\ BytesAtHand'
  <2>1. LinksSound'
    BY <1>5, <1>7, <1>8, TargetTypes DEF ChainInv, LinksSound
  <2>2. BytesAtHand'
    BY <1>5, <1>7 DEF ChainInv, BytesAtHand
  <2> QED
    BY <2>1, <2>2
<1>14. CountsBounded'
  <2>1. \A t \in Session : InTransaction(t)' =>
          InTransaction(t) /\ session'[t].loaded = session[t].loaded
    BY <1>1, <1>5, <1>7 DEF InTransaction
  <2>2. \A t \in Session : Locked(t)' => session'[t].row.count = session'[t].loaded.count + 1
    BY <1>1, <1>5, <1>7 DEF ChainInv, CountsBounded, Locked
  <2>3. \A d \in Doc : rows'[d].count <= Len(Chain(d)') + Unchained(d)'
    BY <1>1, <1>8 DEF ChainInv, CountsBounded
  <2>4. \A t \in Session : InTransaction(t)' =>
          session'[t].loaded.count <= Len(Chain(Target(t))') + Unchained(Target(t))'
    BY <1>8, <2>1, TargetTypes DEF ChainInv, CountsBounded
  <2> QED
    BY <2>2, <2>3, <2>4 DEF CountsBounded
<1> QED
  BY <1>6, <1>7, <1>9, <1>10, <1>11, <1>12, <1>13, <1>14 DEF ChainInv

-----------------------------------------------------------------------------
(* The commit *)

\* The event of a session that is about to commit continues the chain and
\* collides with no event.
LEMMA NewEventContinues ==
    ASSUME ChainInv, NEW s \in Session, session[s].pc = "linked"
    PROVE  /\ NewEvent(s).payload \in Payload
           /\ NewEvent(s).payload.document = Target(s)
           /\ NewEvent(s).payload.sequence = Len(Chain(Target(s))) + 1
           /\ NewEvent(s).payload.actor = s
           /\ NewEvent(s) = [payload |-> NewEvent(s).payload, previous |-> Chain(Target(s)),
                             hash |-> Append(Chain(Target(s)), NewEvent(s).payload)]
           /\ ~Collides(NewEvent(s))
<1> DEFINE chain == Chain(Target(s))
           payload == NewEvent(s).payload
<1>1. /\ IsChain(chain, Target(s)) /\ Events(Target(s)) = EventsOf(chain)
      /\ Len(chain) \in Nat /\ Len(chain) + 1 \in 1..Cardinality(Session)
  <2>1. Keeps(attempts, Target(s), chain)
    BY TargetTypes DEF ChainInv, ChainsSound
  <2>2. Len(chain) + 1 \in 1..Cardinality(Session)
    BY ChainLeavesRoom, TargetTypes
  <2> QED
    BY <2>1, <2>2, LenProperties DEF Keeps, IsChain, Events
<1>2. session[s].sequence = Len(chain) + 1 /\ session[s].previous = chain
  BY DEF ChainInv, LinksSound
<1>3. /\ session[s].content \in Received /\ session[s].uri \in Received
      /\ Inspected[session[s].content].status \in Status
  <2>1. session[s] \in SessionState
    BY DEF ChainInv, CustodyTypeOK
  <2> QED
    BY <2>1, InspectedAssumption DEF SessionState
<1>4. payload = [document |-> Target(s), sequence |-> Len(chain) + 1, actor |-> s,
                 status |-> Inspected[session[s].content].status,
                 content |-> session[s].content, uri |-> session[s].uri]
  BY <1>2 DEF NewEvent
<1>5. payload \in Payload
  BY <1>1, <1>3, <1>4, TargetTypes DEF Payload
<1>6. NewEvent(s) = [payload |-> payload, previous |-> chain, hash |-> Append(chain, payload)]
  BY <1>2 DEF NewEvent, HashOf
<1>7. payload.document = Target(s) /\ payload.sequence = Len(chain) + 1 /\ payload.actor = s
  BY <1>4
<1> HIDE DEF payload, chain
<1>8. /\ Append(chain, payload) \in Seq(Payload) /\ Len(Append(chain, payload)) = Len(chain) + 1
      /\ Append(chain, payload)[Len(chain) + 1] = payload
  BY <1>1, <1>5, AppendProperties DEF IsChain
<1>9. ASSUME NEW f \in attempts
      PROVE  /\ f.hash # Append(chain, payload)
             /\ ~ /\ f.payload.document = Target(s)
                  /\ f.payload.sequence = Len(chain) + 1
  <2> DEFINE d == f.payload.document
  <2>1. d \in Doc
    BY DEF ChainInv, CustodyTypeOK, Event, Payload
  <2>2. IsChain(Chain(d), d) /\ Events(d) = EventsOf(Chain(d))
    BY <2>1 DEF ChainInv, ChainsSound, Keeps, Events
  <2>3. PICK n \in 1..Len(Chain(d)) : f = EventAt(Chain(d), n)
    BY <2>2 DEF Events, EventsIn, EventsOf
  <2>4. /\ f.payload = Chain(d)[n] /\ f.hash = SubSeq(Chain(d), 1, n)
        /\ f.payload.sequence = n
        /\ Len(f.hash) = n /\ f.hash[n] = Chain(d)[n]
    <3> HIDE DEF d
    <3>1. /\ EventAt(Chain(d), n).payload.sequence = n
          /\ Len(SubSeq(Chain(d), 1, n)) = n
          /\ SubSeq(Chain(d), 1, n)[n] = Chain(d)[n]
      BY <2>2, <2>3, EventTypes
    <3>2. f.payload = Chain(d)[n] /\ f.hash = SubSeq(Chain(d), 1, n)
      BY <2>3 DEF EventAt
    <3> QED
      BY <2>3, <3>1, <3>2
  <2>5. Len(Chain(d)) \in Nat
    BY <2>2, LenProperties DEF IsChain
  <2>6. d = Target(s) => f.payload.sequence # Len(chain) + 1
    BY <2>4, <2>5, <1>1 DEF chain
  <2>7. ASSUME f.hash = Append(chain, payload)
        PROVE  FALSE
    <3>1. n = Len(chain) + 1 /\ f.payload = payload
      BY <2>4, <2>7, <1>8
    <3> QED
      BY <3>1, <2>4, <2>6, <1>7
  <2> QED
    BY <2>6, <2>7
<1>10. ~Collides(NewEvent(s))
  <2>1. NewEvent(s).hash = Append(chain, payload) /\ NewEvent(s).payload = payload
    BY <1>6
  <2> QED
    BY <2>1, <1>7, <1>9 DEF Collides
<1> QED
  BY <1>5, <1>6, <1>7, <1>10 DEF payload, chain

\* A commit appends one event to one chain and sets its row.
LEMMA CommitAppends ==
    ASSUME ChainInv, NEW s \in Session, Commit(s)
    PROVE  /\ session[s].pc = "linked"
           /\ UNCHANGED <<file, reader, upgraded, overlapped>>
           /\ rows' = [rows EXCEPT ![Target(s)] = session[s].row]
           /\ attempts' = attempts \cup {NewEvent(s)}
           /\ NewEvent(s) \in Event
           /\ Chain(Target(s))' = Append(Chain(Target(s)), NewEvent(s).payload)
           /\ \A d \in Doc \ {Target(s)} : Chain(d)' = Chain(d)
           /\ ChainsSound'
           /\ session' \in [Session -> SessionState]
           /\ session'[s].pc \in {"answered", "failed"}
           /\ \A t \in Session \ {s} : session'[t] = session[t]
<1> DEFINE d == Target(s)
           e == NewEvent(s)
           longer == Append(Chain(d), e.payload)
<1>1. session[s].pc = "linked" /\ UNCHANGED <<file, reader, upgraded, overlapped>>
  BY DEF Commit, history
<1>2. /\ e.payload \in Payload /\ e.payload.document = d
      /\ e.payload.sequence = Len(Chain(d)) + 1
      /\ e = [payload |-> e.payload, previous |-> Chain(d), hash |-> longer]
      /\ ~Collides(e)
  BY <1>1, NewEventContinues
<1>3. /\ rows' = [rows EXCEPT ![d] = session[s].row] /\ attempts' = attempts \cup {e}
      /\ Goes(s, "answered") \/ Goes(s, "failed")
  BY <1>2 DEF Commit
<1>4. /\ session' \in [Session -> SessionState]
      /\ session'[s].pc \in {"answered", "failed"}
      /\ \A t \in Session \ {s} : session'[t] = session[t]
  <2>1. session \in [Session -> SessionState] /\ session[s] \in SessionState
    BY DEF ChainInv, CustodyTypeOK
  <2>2. PICK pc \in {"answered", "failed"} :
          session' = [session EXCEPT ![s] = [session[s] EXCEPT !.pc = pc]]
    BY <1>3, <2>1 DEF Goes
  <2>3. /\ [session[s] EXCEPT !.pc = pc] \in SessionState
        /\ [session[s] EXCEPT !.pc = pc].pc = pc
    BY <2>1 DEF SessionState
  <2> QED
    BY <2>1, <2>2, <2>3, Moves
<1>5. Keeps(attempts, d, Chain(d)) /\ d \in Doc
  BY TargetTypes DEF ChainInv, ChainsSound
<1> HIDE DEF e, d
<1>6. Keeps(attempts', d, longer)
  <2>1. IsChain(longer, d) /\ EventsOf(longer) = EventsOf(Chain(d)) \cup {e}
    BY <1>2, <1>5, ChainAppended DEF Keeps
  <2>2. EventsIn(attempts', d) = EventsIn(attempts, d) \cup {e}
    BY <1>2, <1>3 DEF EventsIn
  <2> HIDE DEF longer
  <2> QED
    BY <2>1, <2>2, <1>5 DEF Keeps
<1>7. \A c \in Doc \ {d} : EventsIn(attempts', c) = EventsIn(attempts, c)
  BY <1>2, <1>3 DEF EventsIn
<1>8. \A c \in Doc \ {d} : Chain(c)' = Chain(c)
  BY <1>7 DEF Chain, Events
<1>9. Chain(d)' = longer
  BY <1>6, ChainOfTable DEF Chain, Events
<1>10. ChainsSound'
  <2>1. \A c \in Doc \ {d} : Keeps(attempts', c, Chain(c))
    BY <1>7 DEF ChainInv, ChainsSound, Keeps
  <2> QED
    BY <1>6, <1>8, <1>9, <2>1 DEF ChainsSound
<1>11. e \in Event
  <2>1. Chain(d) \in Seq(Payload) /\ longer \in Seq(Payload)
    BY <1>2, <1>5, AppendProperties DEF Keeps, IsChain
  <2> HIDE DEF longer
  <2> QED
    BY <1>2, <2>1 DEF Event, Hash
<1> QED
  BY <1>1, <1>3, <1>4, <1>8, <1>9, <1>10, <1>11 DEF d, e

LEMMA CommitKeeps ==
    ASSUME ChainInv, NEW s \in Session, Commit(s)
    PROVE  ChainInv'
<1>1. /\ session[s].pc = "linked"
      /\ UNCHANGED <<file, reader, upgraded, overlapped>>
      /\ rows' = [rows EXCEPT ![Target(s)] = session[s].row]
      /\ attempts' = attempts \cup {NewEvent(s)}
      /\ NewEvent(s) \in Event /\ NewEvent(s).payload.actor = s
      /\ ChainsSound'
      /\ session' \in [Session -> SessionState]
      /\ session'[s].pc \in {"answered", "failed"}
      /\ \A t \in Session \ {s} : session'[t] = session[t]
  BY CommitAppends, NewEventContinues
<1>2. /\ NewEvent(s).payload \in Payload
      /\ Chain(Target(s))' = Append(Chain(Target(s)), NewEvent(s).payload)
      /\ \A d \in Doc \ {Target(s)} : Chain(d)' = Chain(d)
  BY <1>1, CommitAppends, NewEventContinues
<1>3. \A d \in Doc : /\ Len(Chain(d)) \in Nat
                     /\ Len(Chain(d)') = Len(Chain(d)) + IF d = Target(s) THEN 1 ELSE 0
                     /\ Unchained(d)' = Unchained(d) /\ Unchained(d) \in Nat
  <2> TAKE d \in Doc
  <2>1. Chain(d) \in Seq(Payload) /\ Len(Chain(d)) \in Nat
    BY LenProperties DEF ChainInv, ChainsSound, Keeps, IsChain
  <2>2. Unchained(d)' = Unchained(d) /\ Unchained(d) \in Nat
    BY <1>1 DEF Unchained
  <2>3. CASE d = Target(s)
    BY <2>1, <2>2, <2>3, <1>2, AppendProperties
  <2>4. CASE d # Target(s)
    BY <2>1, <2>2, <2>4, <1>2
  <2> QED
    BY <2>3, <2>4
<1>4. CustodyTypeOK'
  <2>1. session[s].row \in Row
    BY DEF ChainInv, CustodyTypeOK, SessionState
  <2>2. rows' \in [Doc -> Row]
    BY <1>1, <2>1 DEF ChainInv, CustodyTypeOK
  <2>3. attempts' \subseteq Event
    BY <1>1 DEF ChainInv, CustodyTypeOK
  <2> QED
    BY <1>1, <2>2, <2>3 DEF ChainInv, CustodyTypeOK
<1>5. ActorsAreDone'
  <2>1. \A e \in attempts : /\ e.payload.actor \in Session \ {s}
                            /\ session[e.payload.actor].pc \in {"answered", "failed"}
    BY <1>1 DEF ChainInv, CustodyTypeOK, Event, Payload, ActorsAreDone
  <2>2. \A e \in attempts' : session'[e.payload.actor].pc \in {"answered", "failed"}
    BY <1>1, <2>1
  <2>3. \A e, f \in attempts' : e.payload.actor = f.payload.actor => e = f
    BY <1>1, <2>1 DEF ChainInv, ActorsAreDone
  <2> QED
    BY <2>2, <2>3 DEF ActorsAreDone
<1>6. \A t \in Session : /\ InTransaction(t)' => t # s /\ session'[t] = session[t]
                         /\ Locked(t)' => InTransaction(t)'
  BY <1>1 DEF InTransaction, Locked
<1>7. LocksExclude' /\ BytesAtHand'
  <2>1. LocksExclude'
    BY <1>1 DEF ChainInv, LocksExclude, Locked
  <2>2. BytesAtHand'
    BY <1>1 DEF ChainInv, BytesAtHand
  <2> QED
    BY <2>1, <2>2
<1>8. LinksSound'
  <2> SUFFICES ASSUME NEW t \in Session, session'[t].pc = "linked"
               PROVE  /\ session'[t].sequence = Len(Chain(Target(t))') + 1
                      /\ session'[t].previous = Chain(Target(t))'
    BY DEF LinksSound
  <2>1. t # s /\ session'[t] = session[t]
    BY <1>1
  <2>2. Target(t) # Target(s)
    BY <1>1, <2>1 DEF ChainInv, LocksExclude, Locked
  <2>3. Chain(Target(t))' = Chain(Target(t))
    BY <1>2, <2>2, TargetTypes
  <2> QED
    BY <2>1, <2>3 DEF ChainInv, LinksSound
<1>9. CountsBounded'
  <2>1. \A t \in Session : Locked(t)' => session'[t].row.count = session'[t].loaded.count + 1
    BY <1>1 DEF ChainInv, CountsBounded, Locked
  <2>2. ASSUME NEW d \in Doc
        PROVE  rows'[d].count <= Len(Chain(d)') + Unchained(d)'
    <3>1. CASE d = Target(s)
      <4>1. rows'[d] = session[s].row
        BY <1>1, <3>1 DEF ChainInv, CustodyTypeOK
      <4>2. /\ session[s].row.count = session[s].loaded.count + 1
            /\ session[s].loaded.count <= Len(Chain(d)) + Unchained(d)
        BY <1>1, <3>1 DEF ChainInv, CountsBounded, Locked, InTransaction
      <4>3. session[s].loaded.count \in Nat
        BY SessionsAreCounted DEF ChainInv, CustodyTypeOK, SessionState, Row
      <4> QED
        BY <4>1, <4>2, <4>3, <1>3, <3>1
    <3>2. CASE d # Target(s)
      <4>1. rows'[d] = rows[d]
        BY <1>1, <3>2 DEF ChainInv, CustodyTypeOK
      <4> QED
        BY <4>1, <1>3, <3>2 DEF ChainInv, CountsBounded
    <3> QED
      BY <3>1, <3>2
  <2>3. ASSUME NEW t \in Session, InTransaction(t)'
        PROVE  session'[t].loaded.count <= Len(Chain(Target(t))') + Unchained(Target(t))'
    <3>1. /\ session'[t] = session[t] /\ Target(t) \in Doc
          /\ session[t].loaded.count <= Len(Chain(Target(t))) + Unchained(Target(t))
      BY <1>6, <2>3, TargetTypes DEF ChainInv, CountsBounded, InTransaction
    <3>2. session[t].loaded.count \in Nat
      BY SessionsAreCounted DEF ChainInv, CustodyTypeOK, SessionState, Row
    <3> QED
      BY <3>1, <3>2, <1>3
  <2> QED
    BY <2>1, <2>2, <2>3 DEF CountsBounded
<1> QED
  BY <1>1, <1>4, <1>5, <1>7, <1>8, <1>9 DEF ChainInv

-----------------------------------------------------------------------------
(* The report, the medium, and the invariant *)

\* The report and the medium change neither tables nor sessions.
LEMMA OthersMove ==
    ASSUME CustodyTypeOK, ReadRows \/ ReadAttempts \/ (\E x \in Content : Damage(x)) \/ UNCHANGED vars
    PROVE  /\ CustodyTypeOK'
           /\ UNCHANGED <<rows, attempts, session, upgraded, overlapped>>
           /\ \A x \in Content : file[x] # "absent" => file'[x] # "absent"
<1>1. CASE ReadRows
  BY <1>1 DEF ReadRows, CustodyTypeOK, history
<1>2. CASE ReadAttempts
  BY <1>2 DEF ReadAttempts, CustodyTypeOK, history
<1>3. CASE \E x \in Content : Damage(x)
  BY <1>3 DEF Damage, CustodyTypeOK, history
<1>4. CASE UNCHANGED vars
  BY <1>4 DEF vars, CustodyTypeOK
<1> QED
  BY <1>1, <1>2, <1>3, <1>4

LEMMA ChainInit == Init => ChainInv
<1> SUFFICES ASSUME Init PROVE ChainInv
  OBVIOUS
<1>1. PICK received \in [Doc -> Received] :
        rows = [d \in Doc |-> IF d \in upgraded THEN UpgradedRow(received[d]) ELSE NoRow]
  BY DEF Init
<1>2. /\ upgraded \in SUBSET Doc /\ attempts = {} /\ overlapped = {}
      /\ file = [x \in Content |-> "absent"]
      /\ session = [s \in Session |->
                      IF s \in upgraded THEN [Idle EXCEPT !.pc = "answered"] ELSE Idle]
      /\ reader = [pc |-> "idle", rows |-> rows, attempts |-> {}]
  BY DEF Init
<1>3. rows \in [Doc -> Row]
  BY <1>1, RowTypes
<1>4. Idle \in SessionState /\ [Idle EXCEPT !.pc = "answered"] \in SessionState
  <2>1. /\ NoRow \in Row /\ NoHash \in Hash /\ 0 \in 0..Cardinality(Session)
        /\ NoContent \in Received
    BY RowTypes, SessionsAreCounted, EmptySeq DEF NoHash, Hash, Received
  <2> QED
    BY <2>1 DEF Idle, SessionState
<1>5. session \in [Session -> SessionState]
  BY <1>2, <1>4
<1>6. CustodyTypeOK
  BY <1>2, <1>3, <1>5 DEF CustodyTypeOK
<1>7. \A s \in Session : session[s].pc \in {"new", "answered"}
  BY <1>2 DEF Idle
<1>8. \A d \in Doc : EventsIn(attempts, d) = {} /\ Chain(d) = <<>>
  BY <1>2 DEF Chain, Events, EventsIn
<1>9. ChainsSound
  <2>1. \A d \in Doc : Keeps(attempts, d, <<>>)
    BY <1>8, EmptySeq DEF Keeps, IsChain, EventsOf
  <2> QED
    BY <1>8, <2>1 DEF ChainsSound
<1>10. ActorsAreDone
  BY <1>2 DEF ActorsAreDone
<1>11. LocksExclude /\ LinksSound /\ BytesAtHand
  BY <1>7 DEF LocksExclude, LinksSound, BytesAtHand, Locked
<1>12. CountsBounded
  <2>1. \A d \in Doc : rows[d].count = Unchained(d)
    BY <1>1 DEF UpgradedRow, NoRow, Unchained
  <2>2. \A d \in Doc : Unchained(d) \in Nat
    BY DEF Unchained
  <2>3. \A d \in Doc : rows[d].count <= Len(Chain(d)) + Unchained(d)
    BY <1>8, <2>1, <2>2, EmptySeq
  <2> QED
    BY <1>7, <2>3 DEF CountsBounded, InTransaction, Locked
<1> QED
  BY <1>6, <1>9, <1>10, <1>11, <1>12 DEF ChainInv

LEMMA ChainNext == ChainInv /\ [Next]_vars => ChainInv'
<1> SUFFICES ASSUME ChainInv, [Next]_vars PROVE ChainInv'
  OBVIOUS
<1>1. ASSUME NEW s \in Session, SessionStep(s)
      PROVE  ChainInv'
  <2>1. CASE \/ \E x \in Received : Begin(s, x)
             \/ LookUp(s) \/ Replace(s) \/ StorageFails(s) \/ Fail(s)
    BY <2>1, BesideTransactions, QuietStep DEF ChainInv
  <2>2. CASE Load(s)
    BY <2>2, LoadKeeps
  <2>3. CASE Flush(s)
    BY <2>3, FlushKeeps
  <2>4. CASE ReadPrevious(s)
    BY <2>4, LinkKeeps
  <2>5. CASE Commit(s)
    BY <2>5, CommitKeeps
  <2> QED
    BY <1>1, <2>1, <2>2, <2>3, <2>4, <2>5 DEF SessionStep
<1>2. CASE ReadRows \/ ReadAttempts \/ (\E x \in Content : Damage(x)) \/ UNCHANGED vars
  BY <1>2, OthersMove, QuietStep DEF ChainInv
<1> QED
  BY <1>1, <1>2 DEF Next

LEMMA ChainInvHolds == Spec => []ChainInv
BY ChainInit, ChainNext, PTL DEF Spec

\* Whatever overlaps, fails or is damaged, the tables, the sessions and the
\* report keep to their types; in particular a document has no more events than
\* there were sessions (service.py, _append_acquisition_attempt).
THEOREM CustodyTypeCorrect == Spec => []CustodyTypeOK
<1>1. ChainInv => CustodyTypeOK
  BY DEF ChainInv
<1> QED
  BY <1>1, ChainInvHolds, PTL

\* The events of a document are its chain, numbered without a gap and hashed
\* each over the ones before it, for any number of imports that overlap
\* (service.py, _append_acquisition_attempt).
THEOREM ChainsAreComplete == Spec => []ChainComplete
<1>1. ASSUME ChainInv PROVE ChainComplete
  <2> SUFFICES ASSUME NEW d \in Doc
               PROVE  /\ {e.hash : e \in Events(d)} =
                           {SubSeq(Chain(d), 1, n) : n \in 1..Len(Chain(d))}
                      /\ \A n \in 1..Len(Chain(d)) : Chain(d)[n].sequence = n
    BY DEF ChainComplete
  <2>1. IsChain(Chain(d), d) /\ Events(d) = EventsOf(Chain(d))
    BY <1>1 DEF ChainInv, ChainsSound, Keeps, Events
  <2>2. \A n \in 1..Len(Chain(d)) : EventAt(Chain(d), n).hash = SubSeq(Chain(d), 1, n)
    BY DEF EventAt
  <2>3. {e.hash : e \in EventsOf(Chain(d))} = {SubSeq(Chain(d), 1, n) : n \in 1..Len(Chain(d))}
    BY <2>2 DEF EventsOf
  <2> QED
    BY <2>1, <2>3 DEF IsChain
<1> QED
  BY <1>1, ChainInvHolds, PTL

\* No request ever meets the unique constraints of the attempts: the row lock
\* that its UPDATE takes comes before it reads the end of the chain
\* (service.py, replace_source_acquisition).
THEOREM ImportsDoNotCollide == Spec => []ImportsNeverCollide
<1>1. Init => ImportsNeverCollide
  BY DEF Init, Idle, ImportsNeverCollide
<1>2. ChainInv /\ ImportsNeverCollide /\ [Next]_vars => ImportsNeverCollide'
  <2> SUFFICES ASSUME ChainInv, ImportsNeverCollide, [Next]_vars PROVE ImportsNeverCollide'
    OBVIOUS
  <2>1. ASSUME NEW s \in Session, SessionStep(s)
        PROVE  session'[s].pc # "conflict" /\ \A t \in Session \ {s} : session'[t] = session[t]
    <3>1. CASE \/ \E x \in Received : Begin(s, x)
               \/ LookUp(s) \/ Replace(s) \/ StorageFails(s) \/ Fail(s)
      BY <3>1, BesideTransactions DEF ChainInv, Outside
    <3>2. CASE Load(s)
      BY <3>2, LoadMoves DEF ChainInv
    <3>3. CASE Flush(s)
      <4>1. session[s] \in SessionState
        BY DEF ChainInv, CustodyTypeOK
      <4> QED
        BY <3>3, <4>1, FlushKeeps DEF SessionState
    <3>4. CASE ReadPrevious(s)
      <4>1. session[s] \in SessionState
        BY DEF ChainInv, CustodyTypeOK
      <4> QED
        BY <3>4, <4>1, LinkKeeps DEF SessionState
    <3>5. CASE Commit(s)
      BY <3>5, CommitAppends
    <3> QED
      BY <2>1, <3>1, <3>2, <3>3, <3>4, <3>5 DEF SessionStep
  <2>2. CASE ReadRows \/ ReadAttempts \/ (\E x \in Content : Damage(x)) \/ UNCHANGED vars
    BY <2>2, OthersMove DEF ChainInv, ImportsNeverCollide
  <2> QED
    BY <2>1, <2>2 DEF Next, ImportsNeverCollide
<1> QED
  BY <1>1, <1>2, ChainInvHolds, PTL DEF Spec

\* What every step is to the tables: a session commits and appends to its chain,
\* or rows and attempts are as they were.
LEMMA OnlyCommitWrites ==
    ASSUME ChainInv, [Next]_vars
    PROVE  \/ \E s \in Session : Commit(s)
           \/ UNCHANGED <<rows, attempts, upgraded>>
<1>1. ASSUME NEW s \in Session, SessionStep(s), ~Commit(s)
      PROVE  UNCHANGED <<rows, attempts, upgraded>>
  <2>1. CASE \/ \E x \in Received : Begin(s, x)
             \/ LookUp(s) \/ Replace(s) \/ StorageFails(s) \/ Fail(s)
    BY <2>1, BesideTransactions DEF ChainInv
  <2>2. CASE Load(s)
    BY <2>2 DEF Load
  <2>3. CASE Flush(s) \/ ReadPrevious(s)
    BY <2>3 DEF Flush, ReadPrevious, history
  <2> QED
    BY <1>1, <2>1, <2>2, <2>3 DEF SessionStep
<1>2. CASE ReadRows \/ ReadAttempts \/ (\E x \in Content : Damage(x)) \/ UNCHANGED vars
  BY <1>2, OthersMove DEF ChainInv
<1> QED
  BY <1>1, <1>2 DEF Next

-----------------------------------------------------------------------------
(* Custody is an append-only log *)

\* Init of the log, and its steps.
LEMMA InitIsEmptyLog == Init => Log!Init
<1> SUFFICES ASSUME Init PROVE \A d \in Doc : Chain(d) = <<>>
  BY DEF Log!Init
<1> QED
  BY DEF Init, Chain, Events, EventsIn

LEMMA StepIsRecord ==
    ChainInv /\ [Next]_vars => [Log!Next]_[d \in Doc |-> Chain(d)]
<1> SUFFICES ASSUME ChainInv, [Next]_vars
             PROVE  Log!Next \/ UNCHANGED [d \in Doc |-> Chain(d)]
  OBVIOUS
<1>1. CASE UNCHANGED <<rows, attempts, upgraded>>
  <2>1. \A d \in Doc : Chain(d)' = Chain(d)
    BY <1>1 DEF Chain, Events
  <2> QED
    BY <2>1
<1>2. ASSUME NEW s \in Session, Commit(s)
      PROVE  Log!Next
  <2> DEFINE d == Target(s)
             payload == NewEvent(s).payload
  <2>1. /\ Chain(d)' = Append(Chain(d), payload)
        /\ \A c \in Doc \ {d} : Chain(c)' = Chain(c)
        /\ payload \in Payload /\ payload.document = d /\ payload.sequence = Len(Chain(d)) + 1
        /\ d \in Doc
    BY <1>2, CommitAppends, NewEventContinues, TargetTypes
  <2>2. IsChain(Chain(d), d)
    BY <2>1 DEF ChainInv, ChainsSound, Keeps
  <2>3. /\ Len(Chain(d)') = Len(Chain(d)) + 1
        /\ SubSeq(Chain(d)', 1, Len(Chain(d))) = Chain(d)
        /\ Chain(d)'[Len(Chain(d)) + 1] = payload
    BY <2>1, <2>2, ChainAppended
  <2>4. /\ Len(Chain(d)') = Len(Chain(d)) + 1
        /\ SubSeq(Chain(d)', 1, Len(Chain(d))) = Chain(d)
        /\ Chain(d)'[Len(Chain(d)) + 1] \in Payload
        /\ Chain(d)'[Len(Chain(d)) + 1].document = d
        /\ Chain(d)'[Len(Chain(d)) + 1].sequence = Len(Chain(d)) + 1
        /\ \A c \in Doc \ {d} : Chain(c)' = Chain(c)
    BY <2>1, <2>3
  <2> HIDE DEF payload
  <2>5. Log!Record(d)
    BY <2>1, <2>4 DEF Log!Record
  <2> QED
    BY <2>1, <2>5 DEF Log!Next
<1> QED
  BY <1>1, <1>2, OnlyCommitWrites

\* Custody refines the append-only log: every step adds one attempt at the end
\* of the chain of one document or leaves all chains as they are.
THEOREM CustodyIsALog == Spec => ImplementsLog
BY InitIsEmptyLog, StepIsRecord, ChainInvHolds, PTL DEF Spec, ImplementsLog, Log!Spec

-----------------------------------------------------------------------------
(* The vault *)

LEMMA VaultInit == Init => VaultInv
BY DEF Init, Idle, VaultInv, ReceiptSound

LEMMA VaultNext == ChainInv /\ VaultInv /\ [Next]_vars => VaultInv'
<1> SUFFICES ASSUME ChainInv, VaultInv, [Next]_vars PROVE VaultInv'
  OBVIOUS
<1>1. \A uri, content \in Received :
        uri # NoContent /\ (\A x \in Content : file[x] # "absent" => file'[x] # "absent")
        /\ Kept(uri, content) => Kept(uri, content)'
  BY DEF Kept, Received
<1>2. ASSUME NEW t \in Session, session'[t] = session[t],
             \A x \in Content : file[x] # "absent" => file'[x] # "absent"
      PROVE  ReceiptSound(session[t])'
  <2>1. session[t] \in SessionState
    BY DEF ChainInv, CustodyTypeOK
  <2> QED
    BY <1>1, <1>2, <2>1 DEF VaultInv, ReceiptSound, SessionState
<1>3. ASSUME attempts' = attempts, \A x \in Content : file[x] # "absent" => file'[x] # "absent"
      PROVE  \A e \in attempts' : e.payload.uri # NoContent =>
               Kept(e.payload.uri, e.payload.content)'
  <2>1. \A e \in attempts : e.payload.uri \in Received /\ e.payload.content \in Received
    BY DEF ChainInv, CustodyTypeOK, Event, Payload
  <2> QED
    BY <1>1, <1>3, <2>1 DEF VaultInv
<1>4. ASSUME NEW s \in Session, SessionStep(s)
      PROVE  VaultInv'
  <2> DEFINE old == session[s]
             now == session'[s]
  <2>1. /\ old \in SessionState /\ session \in [Session -> SessionState] /\ ReceiptSound(old)
        /\ file \in [Content -> {"absent", "intact", "damaged", "lost"}]
    BY DEF ChainInv, CustodyTypeOK, VaultInv
  <2> DEFINE Same == now.uri = old.uri /\ now.content = old.content /\ now.storage = old.storage
  <2>2. ASSUME file' = file, attempts' = attempts, \A t \in Session \ {s} : session'[t] = session[t],
               ReceiptSound(session[s])'
        PROVE  VaultInv'
    BY <2>2, <1>2, <1>3 DEF VaultInv
  <2>3. ASSUME file' = file, Same, now.pc \notin {"new", "storing", "writing"}
        PROVE  ReceiptSound(session[s])'
    BY <2>1, <2>3 DEF ReceiptSound, Kept
  <2>4. CASE \E x \in Received : Begin(s, x)
    <3>1. PICK x \in Received : Begin(s, x)
      BY <2>4
    <3>2. /\ now.uri = old.uri /\ now.storage = old.storage /\ old.pc = "new"
          /\ now.pc \in {"storing", "stored"} /\ (now.pc = "storing" => VaultEnabled)
          /\ file' = file /\ attempts' = attempts
          /\ \A t \in Session \ {s} : session'[t] = session[t]
      BY <2>1, <3>1 DEF Begin, SessionState
    <3>3. ReceiptSound(session[s])'
      BY <2>1, <3>2 DEF ReceiptSound
    <3> QED
      BY <2>2, <3>2, <3>3
  <2>5. ASSUME old.pc \in {"storing", "writing"}, session' = Stored(s), attempts' = attempts,
               \A x \in Content : file[x] # "absent" => file'[x] # "absent",
               file'[old.content] # "absent"
        PROVE  VaultInv'
    <3>1. /\ now.uri = old.content /\ now.content = old.content
          /\ now.storage = "STORED" /\ now.pc = "stored"
          /\ \A t \in Session \ {s} : session'[t] = session[t]
      BY <2>1, <2>5 DEF Stored, SessionState
    <3>2. VaultEnabled /\ old.content # NoContent
      BY <2>1, <2>5 DEF ReceiptSound, ChainInv, BytesAtHand
    <3>3. ReceiptSound(session[s])'
      BY <2>5, <3>1, <3>2 DEF ReceiptSound, Kept
    <3> QED
      BY <1>2, <1>3, <2>5, <3>1, <3>3 DEF VaultInv
  <2>6. ASSUME old.pc \in {"storing", "writing"} => old.content \in Content
        PROVE  LookUp(s) => VaultInv'
    <3> SUFFICES ASSUME LookUp(s) PROVE VaultInv'
      OBVIOUS
    <3>1. /\ old.pc = "storing" /\ file' = file /\ attempts' = attempts
          /\ file[old.content] \in {"absent", "intact", "damaged", "lost"}
      BY <2>1, <2>6 DEF LookUp
    <3>2. CASE file[old.content] = "intact"
      BY <2>5, <3>1, <3>2 DEF LookUp
    <3>3. CASE file[old.content] \in {"absent", "lost"}
      <4>1. /\ Same /\ now.pc = "writing" /\ \A t \in Session \ {s} : session'[t] = session[t]
        BY <2>1, <3>3, <3>1 DEF LookUp, SessionState
      <4>2. ReceiptSound(session[s])'
        BY <2>1, <3>1, <4>1 DEF ReceiptSound
      <4> QED
        BY <2>2, <3>1, <4>1, <4>2
    <3>4. CASE file[old.content] = "damaged"
      <4>1. /\ Same /\ now.pc = "failed" /\ \A t \in Session \ {s} : session'[t] = session[t]
        BY <2>1, <3>4, <3>1 DEF LookUp, SessionState
      <4> QED
        BY <2>2, <2>3, <3>1, <4>1
    <3> QED
      BY <3>1, <3>2, <3>3, <3>4
  <2>7. old.pc \in {"storing", "writing"} => old.content \in Content
    BY <2>1 DEF ChainInv, BytesAtHand, SessionState, Received
  <2>8. CASE LookUp(s)
    BY <2>6, <2>7, <2>8
  <2>9. CASE Replace(s)
    <3>1. /\ old.pc = "writing" /\ session' = Stored(s) /\ attempts' = attempts
          /\ file' = [file EXCEPT ![old.content] = "intact"]
      BY <2>9 DEF Replace
    <3>2. file'[old.content] # "absent" /\ \A x \in Content : file[x] # "absent" => file'[x] # "absent"
      BY <2>1, <2>7, <3>1
    <3> QED
      BY <2>5, <3>1, <3>2
  <2>10. CASE StorageFails(s)
    <3>1. /\ old.pc \in {"storing", "writing"} /\ file' = file /\ attempts' = attempts
          /\ now.uri = old.uri /\ now.content = old.content
          /\ now.storage = "STORAGE_UNAVAILABLE" /\ now.pc = "stored"
          /\ \A t \in Session \ {s} : session'[t] = session[t]
      BY <2>1, <2>10 DEF StorageFails, SessionState
    <3>2. ReceiptSound(session[s])'
      BY <2>1, <3>1 DEF ReceiptSound
    <3> QED
      BY <2>2, <3>1, <3>2
  <2>11. CASE Fail(s)
    <3>1. /\ Same /\ now.pc = "failed" /\ file' = file /\ attempts' = attempts
          /\ \A t \in Session \ {s} : session'[t] = session[t]
      BY <2>1, <2>11 DEF Fail, Goes, SessionState
    <3> QED
      BY <2>2, <2>3, <3>1
  <2>12. CASE Load(s)
    <3>1. /\ now = [old EXCEPT !.loaded = rows[Target(s)], !.pc = now.pc]
          /\ now.pc \in {"loaded", "answered", "refused"} /\ file' = file /\ attempts' = attempts
          /\ \A t \in Session \ {s} : session'[t] = session[t]
      BY <2>12, LoadMoves DEF ChainInv
    <3>2. Same
      BY <2>1, <3>1 DEF SessionState
    <3> QED
      BY <2>2, <2>3, <3>1, <3>2
  <2>13. CASE Flush(s)
    <3> DEFINE next == [old EXCEPT !.pc = "flushed", !.row = Flushed(s)]
    <3>1. now = next /\ \A t \in Session \ {s} : session'[t] = session[t]
      BY <2>13, FlushKeeps
    <3>2. /\ next.uri = old.uri /\ next.content = old.content /\ next.storage = old.storage
          /\ next.pc = "flushed"
      BY <2>1 DEF SessionState
    <3> HIDE DEF next
    <3>3. /\ Same /\ now.pc = "flushed" /\ \A t \in Session \ {s} : session'[t] = session[t]
      BY <3>1, <3>2
    <3>4. file' = file /\ attempts' = attempts
      BY <2>13 DEF Flush
    <3> QED
      BY <2>2, <2>3, <3>3, <3>4
  <2>14. CASE ReadPrevious(s)
    <3> DEFINE next == [old EXCEPT !.pc = "linked", !.sequence = Len(Chain(Target(s))) + 1,
                            !.previous = Chain(Target(s))]
    <3>1. now = next /\ \A t \in Session \ {s} : session'[t] = session[t]
      BY <2>14, LinkKeeps
    <3>2. /\ next.uri = old.uri /\ next.content = old.content /\ next.storage = old.storage
          /\ next.pc = "linked"
      BY <2>1 DEF SessionState
    <3> HIDE DEF next
    <3>3. /\ Same /\ now.pc = "linked" /\ \A t \in Session \ {s} : session'[t] = session[t]
      BY <3>1, <3>2
    <3>4. file' = file /\ attempts' = attempts
      BY <2>14 DEF ReadPrevious
    <3> QED
      BY <2>2, <2>3, <3>3, <3>4
  <2>15. CASE Commit(s)
    <3>1. /\ file' = file /\ attempts' = attempts \cup {NewEvent(s)}
          /\ now.pc \in {"answered", "failed"}
          /\ \A t \in Session \ {s} : session'[t] = session[t]
      BY <2>15, CommitAppends
    <3>2. Same
      <4>1. Goes(s, "answered") \/ Goes(s, "failed") \/ Goes(s, "conflict")
        BY <2>15 DEF Commit
      <4> QED
        BY <4>1, <2>1 DEF Goes, SessionState
    <3>3. ReceiptSound(session[s])'
      BY <2>3, <3>1, <3>2
    <3>4. NewEvent(s).payload.uri = old.uri /\ NewEvent(s).payload.content = old.content
      BY DEF NewEvent
    <3>5. \A e \in attempts' : e.payload.uri # NoContent => Kept(e.payload.uri, e.payload.content)
      BY <2>1, <3>1, <3>4 DEF VaultInv, ReceiptSound
    <3>6. \A e \in attempts' : e.payload.uri # NoContent => Kept(e.payload.uri, e.payload.content)'
      BY <3>1, <3>5 DEF Kept
    <3> QED
      BY <1>2, <3>1, <3>3, <3>6 DEF VaultInv
  <2> QED
    BY <1>4, <2>4, <2>8, <2>9, <2>10, <2>11, <2>12, <2>13, <2>14, <2>15 DEF SessionStep
<1>5. CASE ReadRows \/ ReadAttempts \/ (\E x \in Content : Damage(x)) \/ UNCHANGED vars
  <2>1. /\ attempts' = attempts /\ session' = session
        /\ \A x \in Content : file[x] # "absent" => file'[x] # "absent"
    BY <1>5, OthersMove DEF ChainInv
  <2> QED
    BY <2>1, <1>2, <1>3 DEF VaultInv
<1> QED
  BY <1>4, <1>5 DEF Next

\* Nothing that the vault has had is ever again as if it had never been there.
LEMMA VaultRemembers ==
    ASSUME ChainInv, [Next]_vars
    PROVE  \A x \in Content : file[x] # "absent" => file'[x] # "absent"
<1>1. ASSUME NEW s \in Session, SessionStep(s)
      PROVE  \A x \in Content : file[x] # "absent" => file'[x] # "absent"
  <2>1. CASE \/ \E x \in Received : Begin(s, x)
             \/ LookUp(s) \/ Replace(s) \/ StorageFails(s) \/ Fail(s)
    BY <2>1, BesideTransactions DEF ChainInv
  <2>2. CASE Load(s) \/ Flush(s) \/ ReadPrevious(s) \/ Commit(s)
    BY <2>2 DEF Load, Flush, ReadPrevious, Commit
  <2> QED
    BY <1>1, <2>1, <2>2 DEF SessionStep
<1>2. CASE ReadRows \/ ReadAttempts \/ (\E x \in Content : Damage(x)) \/ UNCHANGED vars
  BY <1>2, OthersMove DEF ChainInv
<1> QED
  BY <1>1, <1>2 DEF Next

\* The UPDATE names the address that the session was given, or leaves the one there.
LEMMA FlushedAddress ==
    ASSUME ChainInv, NEW s \in Session, session[s].pc = "loaded"
    PROVE  Flushed(s).uri = session[s].uri \/ Flushed(s).uri = rows[Target(s)].uri
<1> DEFINE assigned == Assigned(s)
           loaded == session[s].loaded
           merged == [column \in DOMAIN assigned |->
                        IF assigned[column] = loaded[column] THEN rows[Target(s)][column]
                                                             ELSE assigned[column]]
<1>1. Flushed(s) = IF loaded = NoRow THEN assigned ELSE merged
  BY DEF Flushed
<1>2. assigned \in Row
  BY FlushedTypes
<1>3. DOMAIN assigned = {"status", "verification", "content", "uri", "storage", "method", "count"}
  BY <1>2 DEF Row
<1>4. assigned.uri = session[s].uri
  BY DEF Assigned, Acquired
<1> HIDE DEF assigned
<1>5. merged.uri = assigned.uri \/ merged.uri = rows[Target(s)].uri
  BY <1>3
<1> QED
  BY <1>1, <1>4, <1>5

LEMMA AddressesInit == Init => AddressesKept
<1> SUFFICES ASSUME Init PROVE AddressesKept
  OBVIOUS
<1>1. \A d \in Doc : rows[d].uri = NoContent
  <2>1. PICK received \in [Doc -> Received] :
          rows = [d \in Doc |-> IF d \in upgraded THEN UpgradedRow(received[d]) ELSE NoRow]
    BY DEF Init
  <2>2. NoRow.uri = NoContent /\ \A x : UpgradedRow(x).uri = NoContent
    BY DEF UpgradedRow, NoRow
  <2> QED
    BY <2>1, <2>2
<1>2. \A s \in Session : ~Locked(s)
  BY DEF Init, Idle, Locked
<1> QED
  BY <1>1, <1>2 DEF AddressesKept, KeptAt

LEMMA AddressesNext == ChainInv /\ VaultInv /\ AddressesKept /\ [Next]_vars => AddressesKept'
<1> SUFFICES ASSUME ChainInv, VaultInv, AddressesKept, [Next]_vars PROVE AddressesKept'
  OBVIOUS
<1>1. \A uri \in Received : KeptAt(uri) => KeptAt(uri)'
  BY VaultRemembers DEF KeptAt, Received
<1>2. /\ rows \in [Doc -> Row] /\ session \in [Session -> SessionState]
      /\ \A d \in Doc : rows[d].uri \in Received
      /\ \A s \in Session : session[s].uri \in Received /\ session[s].row.uri \in Received
  BY DEF ChainInv, CustodyTypeOK, SessionState, Row
<1>3. \A d \in Doc : KeptAt(rows[d].uri)
  BY DEF AddressesKept
<1>4. \A s \in Session : KeptAt(session[s].uri)
  BY DEF VaultInv, ReceiptSound, Kept, KeptAt
<1>5. \A uri \in Received : KeptAt(uri) =>
        /\ \A d \in Doc : rows'[d].uri = uri => KeptAt(rows[d].uri)'
        /\ \A s \in Session : session'[s].row.uri = uri => KeptAt(session[s].row.uri)'
  BY <1>1 DEF KeptAt
<1>6. ASSUME rows' = rows
      PROVE  \A d \in Doc : KeptAt(rows[d].uri)'
  BY <1>2, <1>3, <1>5, <1>6
<1>7. ASSUME NEW s \in Session, Locked(s), session'[s].row = session[s].row
      PROVE  KeptAt(session[s].row.uri)'
  BY <1>2, <1>5, <1>7 DEF AddressesKept
<1>8. ASSUME NEW s \in Session, SessionStep(s)
      PROVE  AddressesKept'
  <2>1. ASSUME \A t \in Session \ {s} : session'[t] = session[t],
               Locked(s)' => KeptAt(session[s].row.uri)'
        PROVE  \A t \in Session : Locked(t)' => KeptAt(session[t].row.uri)'
    BY <2>1, <1>7 DEF Locked
  <2>2. CASE \/ \E x \in Received : Begin(s, x)
             \/ LookUp(s) \/ Replace(s) \/ StorageFails(s) \/ Fail(s)
    <3>1. rows' = rows /\ ~Locked(s)' /\ \A t \in Session \ {s} : session'[t] = session[t]
      BY <2>2, BesideTransactions DEF ChainInv, Outside, Locked
    <3> QED
      BY <3>1, <1>6, <2>1 DEF AddressesKept
  <2>3. CASE Load(s)
    <3>1. rows' = rows /\ ~Locked(s)' /\ \A t \in Session \ {s} : session'[t] = session[t]
      BY <2>3, LoadMoves DEF ChainInv, Locked
    <3> QED
      BY <3>1, <1>6, <2>1 DEF AddressesKept
  <2>4. CASE Flush(s)
    <3> DEFINE next == [session[s] EXCEPT !.pc = "flushed", !.row = Flushed(s)]
    <3>1. /\ session[s].pc = "loaded" /\ rows' = rows /\ session'[s] = next
          /\ \A t \in Session \ {s} : session'[t] = session[t]
      BY <2>4, FlushKeeps DEF Flush
    <3>2. next.row = Flushed(s)
      BY <1>2 DEF SessionState
    <3> HIDE DEF next
    <3>3. \/ session'[s].row.uri = session[s].uri
          \/ session'[s].row.uri = rows[Target(s)].uri
      BY <3>1, <3>2, FlushedAddress
    <3>4. KeptAt(session[s].row.uri)'
      BY <3>3, <1>2, <1>3, <1>4, <1>5, TargetTypes
    <3> QED
      BY <3>1, <3>4, <1>6, <2>1 DEF AddressesKept
  <2>5. CASE ReadPrevious(s)
    <3> DEFINE next == [session[s] EXCEPT !.pc = "linked", !.sequence = Len(Chain(Target(s))) + 1,
                                          !.previous = Chain(Target(s))]
    <3>1. /\ session[s].pc = "flushed" /\ rows' = rows /\ session'[s] = next
          /\ \A t \in Session \ {s} : session'[t] = session[t]
      BY <2>5, LinkKeeps DEF ReadPrevious
    <3>2. next.row = session[s].row
      BY <1>2 DEF SessionState
    <3> HIDE DEF next
    <3>3. KeptAt(session[s].row.uri)'
      BY <3>1, <3>2, <1>7 DEF Locked
    <3> QED
      BY <3>1, <3>3, <1>6, <2>1 DEF AddressesKept
  <2>6. CASE Commit(s)
    <3>1. /\ session[s].pc = "linked" /\ rows' = [rows EXCEPT ![Target(s)] = session[s].row]
          /\ session'[s].pc \in {"answered", "failed"}
          /\ \A t \in Session \ {s} : session'[t] = session[t]
      BY <2>6, CommitAppends
    <3>2. KeptAt(session[s].row.uri)
      BY <3>1 DEF AddressesKept, Locked
    <3>3. \A d \in Doc : rows'[d].uri = rows[d].uri \/ rows'[d].uri = session[s].row.uri
      BY <3>1, <1>2
    <3>4. \A d \in Doc : KeptAt(rows[d].uri)'
      BY <3>2, <3>3, <1>2, <1>3, <1>5
    <3>5. ~Locked(s)'
      BY <3>1 DEF Locked
    <3> QED
      BY <3>1, <3>4, <3>5, <2>1 DEF AddressesKept
  <2> QED
    BY <1>8, <2>2, <2>3, <2>4, <2>5, <2>6 DEF SessionStep
<1>9. CASE ReadRows \/ ReadAttempts \/ (\E x \in Content : Damage(x)) \/ UNCHANGED vars
  <2>1. rows' = rows /\ session' = session
    BY <1>9, OthersMove DEF ChainInv
  <2> QED
    BY <2>1, <1>6, <1>7 DEF AddressesKept, Locked
<1> QED
  BY <1>8, <1>9 DEF Next

\* Bytes that an attempt says are stored were in the vault before it was
\* recorded and can be verified since, or the medium has damaged or lost them;
\* and no acquisition row, of overlapped imports too, names an address at which
\* nothing was stored: no crash between vault and transaction leaves either
\* (artifact_vault.py, store; service.py, record_source_acquisition).
THEOREM StoredBytesAreThere == Spec => []StoredIsThere
<1>1. ChainInv /\ VaultInv /\ AddressesKept => StoredIsThere
  <2> SUFFICES ASSUME ChainInv, VaultInv, AddressesKept PROVE StoredIsThere
    OBVIOUS
  <2>1. ASSUME NEW e \in attempts, e.payload.uri # NoContent
        PROVE  \/ Verifies(e.payload.uri, e.payload.content)
               \/ /\ e.payload.uri = e.payload.content
                  /\ file[e.payload.uri] \in {"damaged", "lost"}
    <3>1. e.payload.uri \in Content
      BY <2>1 DEF ChainInv, CustodyTypeOK, Event, Payload, Received
    <3>2. Kept(e.payload.uri, e.payload.content)
      BY <2>1 DEF VaultInv
    <3>3. file[e.payload.uri] \in {"absent", "intact", "damaged", "lost"}
      BY <3>1 DEF ChainInv, CustodyTypeOK
    <3> QED
      BY <2>1, <3>2, <3>3 DEF Kept, Verifies
  <2>2. \A d \in Doc : rows[d].uri # NoContent => file[rows[d].uri] # "absent"
    BY DEF AddressesKept, KeptAt
  <2> QED
    BY <2>1, <2>2 DEF StoredIsThere
<1>2. Spec => [](ChainInv /\ VaultInv /\ AddressesKept)
  BY VaultInit, VaultNext, AddressesInit, AddressesNext, ChainInvHolds, PTL DEF Spec
<1> QED
  BY <1>1, <1>2, PTL

-----------------------------------------------------------------------------
(* The acquisition row *)

\* What a session assigns comes from what it has, and from the row it loaded.
LEMMA AssignedStays ==
    ASSUME NEW s \in Session,
           session'[s].content = session[s].content, session'[s].uri = session[s].uri,
           session'[s].storage = session[s].storage, session'[s].loaded = session[s].loaded
    PROVE  Assigned(s)' = Assigned(s)
BY DEF Assigned, Acquired

\* A session that has the row as it is sets all that it assigns.
LEMMA FlushedIsAssigned ==
    ASSUME ChainInv, NEW s \in Session, session[s].pc = "loaded",
           session[s].loaded = rows[Target(s)]
    PROVE  Flushed(s) = Assigned(s)
<1> DEFINE assigned == Assigned(s)
           loaded == session[s].loaded
           merged == [column \in DOMAIN assigned |->
                        IF assigned[column] = loaded[column] THEN rows[Target(s)][column]
                                                             ELSE assigned[column]]
<1>1. Flushed(s) = IF loaded = NoRow THEN assigned ELSE merged
  BY DEF Flushed
<1>2. assigned \in Row
  BY FlushedTypes
<1>3. DOMAIN assigned = {"status", "verification", "content", "uri", "storage", "method", "count"}
  BY <1>2 DEF Row
<1> HIDE DEF assigned
<1>4. merged = [column \in DOMAIN assigned |-> assigned[column]]
  OBVIOUS
<1>5. assigned = [column \in DOMAIN assigned |-> assigned[column]]
  BY <1>2 DEF Row
<1> QED
  BY <1>1, <1>4, <1>5 DEF assigned

\* Steps that keep rows, chains and what the open transactions have.
LEMMA RowStays ==
    ASSUME ChainInv, RowInv, UNCHANGED <<rows, attempts, upgraded>>,
           overlapped \subseteq overlapped',
           \A t \in Session : InTransaction(t)' => session'[t] = session[t]
    PROVE  RowInv'
<1>1. \A d \in Doc : Chain(d)' = Chain(d) /\ Unchained(d)' = Unchained(d)
  BY DEF Chain, Events, Unchained
<1>2. CounterIsChainLength' /\ RowDescribesLastAttempt'
  BY <1>1 DEF RowInv, CounterIsChainLength, CountsAttempts, RowDescribesLastAttempt
<1>3. \A t \in Session : InTransaction(t)' =>
        /\ InTransaction(t) /\ (Locked(t)' => Locked(t)) /\ Assigned(t)' = Assigned(t)
        /\ session'[t].loaded = session[t].loaded /\ session'[t].row = session[t].row
  BY AssignedStays DEF InTransaction, Locked
<1>4. AloneIsCurrent'
  <2> SUFFICES ASSUME NEW s \in Session, InTransaction(s)', Target(s) \notin overlapped'
               PROVE  /\ session'[s].loaded = rows'[Target(s)]
                      /\ \A t \in Session : InTransaction(t)' /\ Target(t) = Target(s) => t = s
                      /\ Locked(s)' => session'[s].row = Assigned(s)'
    BY DEF AloneIsCurrent
  <2> QED
    BY <1>3 DEF RowInv, AloneIsCurrent
<1> QED
  BY <1>2, <1>4 DEF RowInv

\* The row that a transaction leaves alone is the one that its session had.
LEMMA LoadedIsRow ==
    ASSUME ChainInv, RowInv, NEW s \in Session, Load(s)
    PROVE  RowInv'
<1>1. /\ UNCHANGED <<rows, attempts, file, reader, upgraded>>
      /\ overlapped \subseteq overlapped'
      /\ \A t \in Session \ {s} : session'[t] = session[t]
      /\ session[s].pc = "stored"
      /\ session'[s] = [session[s] EXCEPT !.loaded = rows[Target(s)], !.pc = session'[s].pc]
      /\ session'[s].pc \in {"loaded", "answered", "refused"}
      /\ session'[s].pc = "loaded" =>
           \A t \in Session : Target(t) = Target(s) /\ InTransaction(t) =>
             Target(s) \in overlapped'
  BY LoadMoves DEF ChainInv
<1>2. CASE session'[s].pc # "loaded"
  <2>1. \A t \in Session : InTransaction(t)' => session'[t] = session[t]
    BY <1>1, <1>2 DEF InTransaction
  <2> QED
    BY <1>1, <2>1, RowStays
<1>3. CASE session'[s].pc = "loaded"
  <2>1. \A d \in Doc : Chain(d)' = Chain(d) /\ Unchained(d)' = Unchained(d)
    BY <1>1 DEF Chain, Events, Unchained
  <2>2. CounterIsChainLength' /\ RowDescribesLastAttempt'
    BY <1>1, <2>1 DEF RowInv, CounterIsChainLength, CountsAttempts, RowDescribesLastAttempt
  <2>3. session'[s].loaded = rows'[Target(s)]
    <3>1. session[s] \in SessionState
      BY DEF ChainInv, CustodyTypeOK
    <3> QED
      BY <1>1, <3>1 DEF SessionState
  <2>4. \A t \in Session \ {s} :
          /\ InTransaction(t)' = InTransaction(t) /\ Locked(t)' = Locked(t)
          /\ Assigned(t)' = Assigned(t)
          /\ session'[t].loaded = session[t].loaded /\ session'[t].row = session[t].row
    BY <1>1, AssignedStays DEF InTransaction, Locked
  <2>5. \A t \in Session \ {s} : InTransaction(t)' /\ Target(t) = Target(s) =>
          Target(s) \in overlapped'
    BY <1>1, <1>3, <2>4
  <2>6. AloneIsCurrent'
    <3> SUFFICES ASSUME NEW t \in Session, InTransaction(t)', Target(t) \notin overlapped'
                 PROVE  /\ session'[t].loaded = rows'[Target(t)]
                        /\ \A u \in Session : InTransaction(u)' /\ Target(u) = Target(t) => u = t
                        /\ Locked(t)' => session'[t].row = Assigned(t)'
      BY DEF AloneIsCurrent
    <3>1. CASE t = s
      BY <3>1, <1>3, <2>3, <2>5 DEF Locked
    <3>2. CASE t # s
      <4>1. Target(t) # Target(s)
        BY <3>2, <2>5
      <4> QED
        BY <3>2, <4>1, <1>1, <2>4 DEF RowInv, AloneIsCurrent
    <3> QED
      BY <3>1, <3>2
  <2> QED
    BY <2>2, <2>6 DEF RowInv
<1> QED
  BY <1>2, <1>3

\* An UPDATE and the link that follows it keep a lone transaction current.
LEMMA LockedIsCurrent ==
    ASSUME ChainInv, RowInv, NEW s \in Session, Flush(s) \/ ReadPrevious(s)
    PROVE  RowInv'
<1>1. session[s] \in SessionState
  BY DEF ChainInv, CustodyTypeOK
<1>2. /\ UNCHANGED <<rows, attempts, upgraded, overlapped>>
      /\ \A t \in Session \ {s} : session'[t] = session[t]
      /\ session[s].pc \in {"loaded", "flushed"} /\ session'[s].pc \in {"flushed", "linked"}
      /\ session'[s].content = session[s].content /\ session'[s].uri = session[s].uri
      /\ session'[s].storage = session[s].storage /\ session'[s].loaded = session[s].loaded
      /\ session[s].pc = "loaded" => session'[s].row = Flushed(s)
      /\ session[s].pc = "flushed" => session'[s].row = session[s].row
  <2>1. CASE Flush(s)
    <3> DEFINE next == [session[s] EXCEPT !.pc = "flushed", !.row = Flushed(s)]
    <3>1. /\ session'[s] = next /\ session[s].pc = "loaded"
          /\ \A t \in Session \ {s} : session'[t] = session[t]
          /\ UNCHANGED <<rows, attempts, upgraded, overlapped>>
      BY <2>1, FlushKeeps DEF Flush, history
    <3>2. /\ next.pc = "flushed" /\ next.content = session[s].content
          /\ next.uri = session[s].uri /\ next.storage = session[s].storage
          /\ next.loaded = session[s].loaded /\ next.row = Flushed(s)
      BY <1>1 DEF SessionState
    <3> HIDE DEF next
    <3> QED
      BY <3>1, <3>2
  <2>2. CASE ReadPrevious(s)
    <3> DEFINE next == [session[s] EXCEPT !.pc = "linked",
                          !.sequence = Len(Chain(Target(s))) + 1, !.previous = Chain(Target(s))]
    <3>1. /\ session'[s] = next /\ session[s].pc = "flushed"
          /\ \A t \in Session \ {s} : session'[t] = session[t]
          /\ UNCHANGED <<rows, attempts, upgraded, overlapped>>
      BY <2>2, LinkKeeps DEF ReadPrevious, history
    <3>2. /\ next.pc = "linked" /\ next.content = session[s].content
          /\ next.uri = session[s].uri /\ next.storage = session[s].storage
          /\ next.loaded = session[s].loaded /\ next.row = session[s].row
      BY <1>1 DEF SessionState
    <3> HIDE DEF next
    <3> QED
      BY <3>1, <3>2
  <2> QED
    BY <2>1, <2>2
<1>3. \A d \in Doc : Chain(d)' = Chain(d) /\ Unchained(d)' = Unchained(d)
  BY <1>2 DEF Chain, Events, Unchained
<1>4. CounterIsChainLength' /\ RowDescribesLastAttempt'
  BY <1>2, <1>3 DEF RowInv, CounterIsChainLength, CountsAttempts, RowDescribesLastAttempt
<1>5. \A t \in Session : /\ InTransaction(t)' = InTransaction(t) /\ Assigned(t)' = Assigned(t)
                         /\ session'[t].loaded = session[t].loaded
  BY <1>2, AssignedStays DEF InTransaction
<1>6. ASSUME NEW t \in Session, InTransaction(t), Target(t) \notin overlapped, Locked(t)'
      PROVE  session'[t].row = Assigned(t)
  <2>1. CASE t # s
    BY <2>1, <1>2, <1>6 DEF RowInv, AloneIsCurrent, Locked
  <2>2. CASE t = s /\ session[s].pc = "flushed"
    BY <2>2, <1>2, <1>6 DEF RowInv, AloneIsCurrent, Locked
  <2>3. CASE t = s /\ session[s].pc = "loaded"
    <3>1. session[s].loaded = rows[Target(s)]
      BY <2>3, <1>6 DEF RowInv, AloneIsCurrent
    <3> QED
      BY <2>3, <3>1, <1>2, FlushedIsAssigned
  <2> QED
    BY <2>1, <2>2, <2>3, <1>2
<1>7. AloneIsCurrent'
  <2> SUFFICES ASSUME NEW t \in Session, InTransaction(t)', Target(t) \notin overlapped'
               PROVE  /\ session'[t].loaded = rows'[Target(t)]
                      /\ \A u \in Session : InTransaction(u)' /\ Target(u) = Target(t) => u = t
                      /\ Locked(t)' => session'[t].row = Assigned(t)'
    BY DEF AloneIsCurrent
  <2>1. InTransaction(t) /\ Target(t) \notin overlapped
    BY <1>2, <1>5
  <2>2. session[t].loaded = rows[Target(t)]
        /\ \A u \in Session : InTransaction(u) /\ Target(u) = Target(t) => u = t
    BY <2>1 DEF RowInv, AloneIsCurrent
  <2> QED
    BY <2>1, <2>2, <1>2, <1>5, <1>6
<1> QED
  BY <1>4, <1>7 DEF RowInv

\* The commit of a lone transaction leaves a row that counts the chain and
\* describes its last attempt.
LEMMA CommittedRow ==
    ASSUME ChainInv, VaultInv, RowInv, NEW s \in Session, Commit(s)
    PROVE  RowInv'
<1> DEFINE d == Target(s)
           payload == NewEvent(s).payload
<1>1. /\ session[s].pc = "linked" /\ UNCHANGED <<upgraded, overlapped>>
      /\ rows' = [rows EXCEPT ![d] = session[s].row]
      /\ Chain(d)' = Append(Chain(d), payload)
      /\ \A c \in Doc \ {d} : Chain(c)' = Chain(c)
      /\ session'[s].pc \in {"answered", "failed"}
      /\ \A t \in Session \ {s} : session'[t] = session[t]
      /\ payload \in Payload /\ d \in Doc
  BY CommitAppends, NewEventContinues, TargetTypes
<1>2. /\ Chain(d) \in Seq(Payload) /\ Len(Chain(d)) \in Nat /\ Unchained(d) \in Nat
      /\ rows \in [Doc -> Row] /\ session[s] \in SessionState
  BY <1>1, LenProperties DEF ChainInv, CustodyTypeOK, ChainsSound, Keeps, IsChain, Unchained
<1>3. /\ Len(Chain(d)') = Len(Chain(d)) + 1 /\ Chain(d)'[Len(Chain(d)')] = payload
  BY <1>1, <1>2, AppendProperties
<1>4. rows'[d] = session[s].row /\ \A c \in Doc \ {d} : rows'[c] = rows[c]
  BY <1>1, <1>2
<1>5. \A c \in Doc : Unchained(c)' = Unchained(c)
  BY <1>1 DEF Unchained
<1>6. ASSUME d \notin overlapped
      PROVE  /\ session[s].row = Assigned(s)
             /\ session[s].row.count = rows[d].count + 1
             /\ Describes(session[s].row, payload)
  <2>1. /\ session[s].row = Assigned(s) /\ session[s].loaded = rows[d]
    BY <1>1, <1>6 DEF RowInv, AloneIsCurrent, InTransaction, Locked
  <2>2. session[s].row.count = rows[d].count + 1
    BY <1>1, <2>1 DEF ChainInv, CountsBounded, Locked
  <2>3. /\ payload.content = session[s].content /\ payload.uri = session[s].uri
        /\ payload.status = Inspected[session[s].content].status /\ payload.actor = s
    BY DEF NewEvent
  <2>4. session[s].storage = "STORED" <=> session[s].uri # NoContent
    BY DEF VaultInv, ReceiptSound
  <2>5. /\ Assigned(s).content = session[s].content /\ Assigned(s).uri = session[s].uri
        /\ Assigned(s).storage = session[s].storage
        /\ Assigned(s).status = Inspected[session[s].content].status
        /\ Assigned(s).verification = Inspected[session[s].content].verification
        /\ Assigned(s).method = IF IsFetch(s) THEN "PUBLIC_HTTP" ELSE "REVIEWER_IMPORT"
    BY DEF Assigned, Acquired
  <2> HIDE DEF payload
  <2> QED
    BY <2>1, <2>2, <2>3, <2>4, <2>5 DEF Describes
<1> HIDE DEF payload, d
<1>7. CounterIsChainLength'
  <2> SUFFICES ASSUME NEW c \in Doc, c \notin overlapped
               PROVE  rows'[c].count = Len(Chain(c)') + Unchained(c)
    BY <1>1, <1>5 DEF CounterIsChainLength, CountsAttempts
  <2>1. rows[c].count = Len(Chain(c)) + Unchained(c)
    BY DEF RowInv, CounterIsChainLength, CountsAttempts
  <2>2. CASE c = d
    BY <2>1, <2>2, <1>2, <1>3, <1>4, <1>6
  <2>3. CASE c # d
    BY <2>1, <2>3, <1>1, <1>4
  <2> QED
    BY <2>2, <2>3
<1>8. RowDescribesLastAttempt'
  <2> SUFFICES ASSUME NEW c \in Doc, c \notin overlapped, Chain(c)' # <<>>
               PROVE  Describes(rows'[c], Chain(c)'[Len(Chain(c)')])
    BY <1>1 DEF RowDescribesLastAttempt, Describes
  <2>1. CASE c = d
    BY <2>1, <1>3, <1>4, <1>6
  <2>2. CASE c # d
    BY <2>2, <1>1, <1>4 DEF RowInv, RowDescribesLastAttempt
  <2> QED
    BY <2>1, <2>2
<1>9. AloneIsCurrent'
  <2> SUFFICES ASSUME NEW t \in Session, InTransaction(t)', Target(t) \notin overlapped
               PROVE  /\ session'[t].loaded = rows'[Target(t)]
                      /\ \A u \in Session : InTransaction(u)' /\ Target(u) = Target(t) => u = t
                      /\ Locked(t)' => session'[t].row = Assigned(t)'
    BY <1>1 DEF AloneIsCurrent
  <2>1. \A u \in Session : InTransaction(u)' =>
          /\ u # s /\ session'[u] = session[u] /\ InTransaction(u)
          /\ (Locked(u)' => Locked(u)) /\ Assigned(u)' = Assigned(u)
    BY <1>1, AssignedStays DEF InTransaction, Locked
  <2>2. Target(t) # Target(s)
    BY <2>1, <1>1 DEF RowInv, AloneIsCurrent, InTransaction
  <2>3. rows'[Target(t)] = rows[Target(t)]
    BY <2>2, <1>4, TargetTypes DEF d
  <2> QED
    BY <2>1, <2>3 DEF RowInv, AloneIsCurrent
<1> QED
  BY <1>7, <1>8, <1>9 DEF RowInv

LEMMA RowNext == ChainInv /\ VaultInv /\ RowInv /\ [Next]_vars => RowInv'
<1> SUFFICES ASSUME ChainInv, VaultInv, RowInv, [Next]_vars PROVE RowInv'
  OBVIOUS
<1>1. ASSUME NEW s \in Session, SessionStep(s)
      PROVE  RowInv'
  <2>1. CASE \/ \E x \in Received : Begin(s, x)
             \/ LookUp(s) \/ Replace(s) \/ StorageFails(s) \/ Fail(s)
    <3>1. /\ UNCHANGED <<rows, attempts, upgraded, overlapped>>
          /\ Outside(s) /\ \A t \in Session \ {s} : session'[t] = session[t]
      BY <2>1, BesideTransactions DEF ChainInv
    <3>2. \A t \in Session : InTransaction(t)' => session'[t] = session[t]
      BY <3>1 DEF Outside, InTransaction
    <3> QED
      BY <3>1, <3>2, RowStays
  <2>2. CASE Load(s)
    BY <2>2, LoadedIsRow
  <2>3. CASE Flush(s) \/ ReadPrevious(s)
    BY <2>3, LockedIsCurrent
  <2>4. CASE Commit(s)
    BY <2>4, CommittedRow
  <2> QED
    BY <1>1, <2>1, <2>2, <2>3, <2>4 DEF SessionStep
<1>2. CASE ReadRows \/ ReadAttempts \/ (\E x \in Content : Damage(x)) \/ UNCHANGED vars
  BY <1>2, OthersMove, RowStays DEF ChainInv
<1> QED
  BY <1>1, <1>2 DEF Next

LEMMA RowInit == Init => RowInv
<1> SUFFICES ASSUME Init PROVE RowInv
  OBVIOUS
<1>1. \A d \in Doc : Chain(d) = <<>>
  BY DEF Init, Chain, Events, EventsIn
<1>2. PICK received \in [Doc -> Received] :
        rows = [d \in Doc |-> IF d \in upgraded THEN UpgradedRow(received[d]) ELSE NoRow]
  BY DEF Init
<1>3. \A d \in Doc : rows[d].count = Unchained(d) /\ Unchained(d) \in Nat
  BY <1>2 DEF UpgradedRow, NoRow, Unchained
<1>4. CounterIsChainLength
  BY <1>1, <1>3, EmptySeq DEF CounterIsChainLength, CountsAttempts
<1>5. RowDescribesLastAttempt
  BY <1>1 DEF RowDescribesLastAttempt
<1>6. AloneIsCurrent
  BY DEF Init, Idle, AloneIsCurrent, InTransaction
<1> QED
  BY <1>4, <1>5, <1>6 DEF RowInv

LEMMA RowInvHolds == Spec => []RowInv
BY RowInit, RowNext, VaultInit, VaultNext, ChainInvHolds, PTL DEF Spec

\* The attempts that a row counts are those of its chain, for any number of
\* imports, failures and upgraded rows, unless two transactions on the row have
\* overlapped (service.py, replace_source_acquisition, attempt_count += 1).
THEOREM LoneImportsAreCounted == Spec => []CounterIsChainLength
<1>1. RowInv => CounterIsChainLength
  BY DEF RowInv
<1> QED
  BY <1>1, RowInvHolds, PTL

\* Under the same condition the row is the result of the last attempt of its
\* chain, its bytes, verdict and address together.
THEOREM LoneRowsDescribe == Spec => []RowDescribesLastAttempt
<1>1. RowInv => RowDescribesLastAttempt
  BY DEF RowInv
<1> QED
  BY <1>1, RowInvHolds, PTL

-----------------------------------------------------------------------------
(* The custody report *)

\* Chains never get shorter.
LEMMA ChainsGrow ==
    ASSUME ChainInv, [Next]_vars
    PROVE  \A d \in Doc : /\ Len(Chain(d)) \in Nat /\ Len(Chain(d)') \in Nat
                          /\ Len(Chain(d)) <= Len(Chain(d)')
                          /\ Chain(d) # <<>> => Chain(d)' # <<>>
                          /\ Unchained(d)' = Unchained(d) /\ Unchained(d) \in Nat
<1>1. \A d \in Doc : Chain(d) \in Seq(Payload) /\ Len(Chain(d)) \in Nat /\ Unchained(d) \in Nat
  BY LenProperties DEF ChainInv, ChainsSound, Keeps, IsChain, Unchained
<1>2. CASE UNCHANGED <<rows, attempts, upgraded>>
  <2>1. \A d \in Doc : Chain(d)' = Chain(d) /\ Unchained(d)' = Unchained(d)
    BY <1>2 DEF Chain, Events, Unchained
  <2> QED
    BY <1>1, <2>1
<1>3. ASSUME NEW s \in Session, Commit(s), NEW d \in Doc
      PROVE  /\ Len(Chain(d)') \in Nat /\ Len(Chain(d)) <= Len(Chain(d)')
             /\ Chain(d) # <<>> => Chain(d)' # <<>>
             /\ Unchained(d)' = Unchained(d)
  <2>1. /\ Chain(Target(s))' = Append(Chain(Target(s)), NewEvent(s).payload)
        /\ \A c \in Doc \ {Target(s)} : Chain(c)' = Chain(c)
        /\ NewEvent(s).payload \in Payload /\ upgraded' = upgraded
    BY <1>3, CommitAppends, NewEventContinues
  <2>2. CASE d = Target(s)
    BY <2>1, <2>2, <1>1, AppendProperties DEF Unchained
  <2>3. CASE d # Target(s)
    BY <2>1, <2>3, <1>1 DEF Unchained
  <2> QED
    BY <2>2, <2>3
<1> QED
  BY <1>1, <1>2, <1>3, OnlyCommitWrites

LEMMA AccountsStay ==
    ASSUME ChainInv, [Next]_vars, NEW table \in [Doc -> Row], RowsAccounted(table)
    PROVE  \A d \in Doc : /\ table[d].count <= Len(Chain(d)') + Unchained(d)'
                          /\ table[d] # NoRow => Chain(d)' # <<>> \/ d \in upgraded'
<1> TAKE d \in Doc
<1>1. table[d].count \in Nat
  BY SessionsAreCounted DEF Row
<1>2. /\ table[d].count <= Len(Chain(d)) + Unchained(d)
      /\ table[d] # NoRow => Chain(d) # <<>> \/ d \in upgraded
  BY DEF RowsAccounted
<1>3. upgraded' = upgraded
  BY OnlyCommitWrites, CommitAppends
<1> QED
  BY <1>1, <1>2, <1>3, ChainsGrow

LEMMA ReportNext == ChainInv /\ ReportInv /\ [Next]_vars => ReportInv'
<1> SUFFICES ASSUME ChainInv, ReportInv, [Next]_vars PROVE ReportInv'
  OBVIOUS
<1>1. rows \in [Doc -> Row] /\ reader.rows \in [Doc -> Row] /\ ChainInv'
  BY ChainNext DEF ChainInv, CustodyTypeOK
<1>2. RowsAccounted(rows)'
  <2>1. CASE UNCHANGED <<rows, attempts, upgraded>>
    BY <2>1, <1>1, AccountsStay DEF ReportInv, RowsAccounted
  <2>2. ASSUME NEW s \in Session, Commit(s)
        PROVE  RowsAccounted(rows)'
    <3>1. \A d \in Doc : rows'[d].count <= Len(Chain(d)') + Unchained(d)'
      BY <1>1 DEF ChainInv, CountsBounded
    <3>2. \A d \in Doc \ {Target(s)} : rows'[d] # NoRow => Chain(d)' # <<>> \/ d \in upgraded'
      <4>1. \A d \in Doc \ {Target(s)} : rows'[d] = rows[d]
        BY <1>1, <2>2, CommitAppends
      <4> QED
        BY <1>1, <4>1, AccountsStay DEF ReportInv
    <3>3. Chain(Target(s))' # <<>>
      <4>1. /\ Chain(Target(s))' = Append(Chain(Target(s)), NewEvent(s).payload)
            /\ NewEvent(s).payload \in Payload
        BY <2>2, CommitAppends, NewEventContinues
      <4>2. Chain(Target(s)) \in Seq(Payload)
        BY TargetTypes DEF ChainInv, ChainsSound, Keeps, IsChain
      <4> QED
        BY <4>1, <4>2, AppendProperties
    <3> QED
      BY <3>1, <3>2, <3>3 DEF RowsAccounted
  <2> QED
    BY <2>1, <2>2, OnlyCommitWrites
<1>3. CASE reader' = reader
  <2>1. reader.pc = "rows_read" => RowsAccounted(reader.rows)'
    BY <1>1, <1>3, AccountsStay DEF ReportInv, RowsAccounted
  <2>2. upgraded' = upgraded
    BY OnlyCommitWrites, CommitAppends
  <2>3. ReportHoldsTogether'
    BY <1>3, <2>2 DEF ReportInv, ReportHoldsTogether, Unchained
  <2> QED
    BY <1>2, <1>3, <2>1, <2>3 DEF ReportInv
<1>4. CASE ReadRows
  <2>1. reader'.pc = "rows_read" /\ reader'.rows = rows
    BY <1>4 DEF ReadRows, ChainInv, CustodyTypeOK
  <2>2. RowsAccounted(reader.rows)'
    BY <2>1, <1>1, AccountsStay DEF ReportInv, RowsAccounted
  <2> QED
    BY <1>2, <2>1, <2>2 DEF ReportInv, ReportHoldsTogether
<1>5. CASE ReadAttempts
  <2>1. /\ reader.pc = "rows_read" /\ reader'.pc = "done" /\ reader'.rows = reader.rows
        /\ reader'.attempts = attempts /\ upgraded' = upgraded
    BY <1>5 DEF ReadAttempts, ChainInv, CustodyTypeOK, history
  <2>2. ASSUME NEW d \in Doc, reader.rows[d] # NoRow
        PROVE  /\ ChainVerified(EventsIn(attempts, d)) \/ (d \in upgraded /\ EventsIn(attempts, d) = {})
               /\ reader.rows[d].count <= Cardinality(EventsIn(attempts, d)) + Unchained(d)
    <3>1. IsChain(Chain(d), d) /\ EventsIn(attempts, d) = EventsOf(Chain(d))
      BY DEF ChainInv, ChainsSound, Keeps
    <3>2. /\ Cardinality(EventsIn(attempts, d)) = Len(Chain(d))
          /\ Chain(d) # <<>> => ChainVerified(EventsIn(attempts, d))
      BY <3>1, ChainVerifies
    <3>3. /\ reader.rows[d].count <= Len(Chain(d)) + Unchained(d)
          /\ Chain(d) # <<>> \/ d \in upgraded
      BY <2>1, <2>2 DEF ReportInv, RowsAccounted
    <3>4. Chain(d) = <<>> => EventsIn(attempts, d) = {}
      BY <3>1, EmptySeq DEF EventsOf
    <3> QED
      BY <3>2, <3>3, <3>4
  <2>3. ReportHoldsTogether'
    BY <2>1, <2>2 DEF ReportHoldsTogether, Unchained
  <2> QED
    BY <1>2, <2>1, <2>3 DEF ReportInv
<1>6. ASSUME NEW s \in Session, SessionStep(s)
      PROVE  reader' = reader
  <2>1. CASE \/ \E x \in Received : Begin(s, x)
             \/ LookUp(s) \/ Replace(s) \/ StorageFails(s) \/ Fail(s)
    BY <2>1, BesideTransactions DEF ChainInv
  <2>2. CASE Load(s) \/ Flush(s) \/ ReadPrevious(s) \/ Commit(s)
    BY <2>2 DEF Load, Flush, ReadPrevious, Commit
  <2> QED
    BY <1>6, <2>1, <2>2 DEF SessionStep
<1> QED
  BY <1>3, <1>4, <1>5, <1>6 DEF Next, Damage, vars

\* A report never shows a broken chain, and never counts more attempts than it
\* lists, whatever is committed between its two statements; an upgraded row may
\* have no events (service.py, source_custody).
THEOREM ReportsHoldTogether == Spec => []ReportHoldsTogether
<1>1. Init => ReportInv
  <2> SUFFICES ASSUME Init PROVE ReportInv
    OBVIOUS
  <2>1. ChainInv /\ reader.pc = "idle"
    BY ChainInit DEF Init
  <2>2. \A d \in Doc : rows[d] # NoRow => d \in upgraded
    BY DEF Init
  <2> QED
    BY <2>1, <2>2 DEF ReportInv, RowsAccounted, ReportHoldsTogether, ChainInv, CountsBounded
<1>2. ReportInv => ReportHoldsTogether
  BY DEF ReportInv
<1> QED
  BY <1>1, <1>2, ReportNext, ChainInvHolds, PTL DEF Spec
=============================================================================
