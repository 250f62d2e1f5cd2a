------------------------ MODULE TorrentClientProofs ------------------------
(***************************************************************************)
(* Lemmas about the operations of TorrentClient: what they do to the array *)
(* and that they keep the types.                                           *)
(***************************************************************************)
EXTENDS TorrentClient, SequenceTheorems, TLAPS

-----------------------------------------------------------------------------
(* Removing a position from a sequence. *)

LEMMA RemoveAtElements ==
    ASSUME NEW T, NEW q \in Seq(T), NEW k \in 1..Len(q)
    PROVE  /\ RemoveAt(q, k) \in Seq(T)
           /\ Len(RemoveAt(q, k)) = Len(q) - 1
           /\ \A i \in 1..(Len(q) - 1) :
                 RemoveAt(q, k)[i] = IF i < k THEN q[i] ELSE q[i + 1]
<1> DEFINE a == SubSeq(q, 1, k - 1)
           b == SubSeq(q, k + 1, Len(q))
<1>1. a \in Seq(T) /\ Len(a) = k - 1 /\ \A i \in 1..(k - 1) : a[i] = q[i]
  OBVIOUS
<1>2. /\ b \in Seq(T) /\ Len(b) = Len(q) - k
      /\ \A i \in 1..(Len(q) - k) : b[i] = q[k + i]
  OBVIOUS
<1>3. RemoveAt(q, k) = a \o b
  BY DEF RemoveAt
<1>. HIDE DEF a, b
<1>4. /\ a \o b \in Seq(T) /\ Len(a \o b) = Len(a) + Len(b)
      /\ \A i \in 1..(Len(a) + Len(b)) :
            (a \o b)[i] = IF i <= Len(a) THEN a[i] ELSE b[i - Len(a)]
  BY <1>1, <1>2, ConcatProperties
<1>5. /\ a \o b \in Seq(T) /\ Len(a \o b) = Len(q) - 1
      /\ \A i \in 1..(Len(q) - 1) :
            (a \o b)[i] = IF i < k THEN a[i] ELSE b[i - (k - 1)]
  BY <1>1, <1>2, <1>4
<1>6. ASSUME NEW i \in 1..(Len(q) - 1)
      PROVE  (a \o b)[i] = IF i < k THEN q[i] ELSE q[i + 1]
  <2>1. CASE i < k
    BY <1>1, <1>5, <2>1
  <2>2. CASE ~(i < k)
    <3>1. i - (k - 1) \in 1..(Len(q) - k) /\ k + (i - (k - 1)) = i + 1
      BY <2>2
    <3>2. QED
      BY <1>2, <1>5, <2>2, <3>1
  <2>3. QED
    BY <2>1, <2>2
<1>7. QED
  BY <1>3, <1>5, <1>6

LEMMA RemoveAtRange ==
    ASSUME NEW T, NEW q \in Seq(T), NEW k \in 1..Len(q),
           \A i, j \in 1..Len(q) : q[i] = q[j] => i = j
    PROVE  /\ Range(RemoveAt(q, k)) = Range(q) \ {q[k]}
           /\ \A i, j \in 1..Len(RemoveAt(q, k)) :
                 RemoveAt(q, k)[i] = RemoveAt(q, k)[j] => i = j
<1> DEFINE r == RemoveAt(q, k)
<1>1. /\ r \in Seq(T)
      /\ Len(r) = Len(q) - 1
      /\ \A i \in 1..(Len(q) - 1) : r[i] = IF i < k THEN q[i] ELSE q[i + 1]
  BY RemoveAtElements
<1>. HIDE DEF r
<1>2. Range(r) \subseteq Range(q) \ {q[k]}
  BY <1>1 DEF Range
<1>3. ASSUME NEW i \in 1..Len(q), q[i] # q[k]
      PROVE  q[i] \in Range(r)
  <2>1. CASE i < k
    BY <1>1, <2>1 DEF Range
  <2>2. CASE i > k
    <3>1. i - 1 \in 1..Len(r) /\ r[i - 1] = q[i]
      BY <1>1, <2>2
    <3>2. QED
      BY <1>1, <3>1 DEF Range
  <2>3. QED
    BY <1>3, <2>1, <2>2
<1>4. \A i, j \in 1..Len(r) : r[i] = r[j] => i = j
  BY <1>1
<1>5. Range(r) = Range(q) \ {q[k]}
  <2>1. ASSUME NEW x \in Range(q), x # q[k]
        PROVE  x \in Range(r)
    <3>1. PICK i \in 1..Len(q) : q[i] = x
      BY DEF Range
    <3>2. QED
      BY <1>3, <2>1, <3>1
  <2>2. QED
    BY <1>2, <2>1
<1>6. QED
  BY <1>4, <1>5 DEF r

-----------------------------------------------------------------------------
(* The operations. *)

LEMMA MaxIdleType == MaxIdle \in Nat /\ PauseAfter <= MaxIdle /\ StopAfter <= MaxIdle
  BY LimitAssumption DEF MaxIdle

\* Destroying a torrent that is in the client once takes exactly it away.
LEMMA DestroyRange ==
    ASSUME torrents \in Seq(Hash), NEW h, InClient(h), Destroy(h),
           \A i, j \in DOMAIN torrents : torrents[i] = torrents[j] => i = j
    PROVE  /\ Range(torrents') = Range(torrents) \ {h}
           /\ \A i, j \in DOMAIN torrents' : torrents'[i] = torrents'[j] => i = j
<1> DEFINE k == CHOOSE i \in DOMAIN torrents : torrents[i] = h
<1>1. k \in 1..Len(torrents) /\ torrents[k] = h
  BY DEF InClient, Range
<1>2. torrents' = RemoveAt(torrents, k)
  BY DEF Destroy
<1>. HIDE DEF k
<1>3. torrents' \in Seq(Hash)
  BY <1>1, <1>2, RemoveAtElements
<1>4. QED
  BY <1>1, <1>2, <1>3, RemoveAtRange

LEMMA DestroyType ==
    ASSUME ClientTypeOK, NEW h \in Hash, InClient(h), Destroy(h)
    PROVE  ClientTypeOK'
<1> DEFINE k == CHOOSE i \in DOMAIN torrents : torrents[i] = h
<1>1. k \in 1..Len(torrents)
  BY DEF InClient, Range, ClientTypeOK
<1>2. torrents' = RemoveAt(torrents, k)
  BY DEF Destroy
<1>. HIDE DEF k
<1>3. torrents' \in Seq(Hash)
  BY <1>1, <1>2, RemoveAtElements DEF ClientTypeOK
<1>4. QED
  BY <1>3 DEF ClientTypeOK, Destroy, ForgetFields, Status

LEMMA AddType ==
    ASSUME ClientTypeOK, NEW h \in Hash, Add(h)
    PROVE  ClientTypeOK'
  BY DEF ClientTypeOK, Add

LEMMA BecomeReadyType ==
    ASSUME ClientTypeOK, NEW h \in Hash, BecomeReady(h)
    PROVE  ClientTypeOK'
  BY DEF ClientTypeOK, BecomeReady

LEMMA ListenerType ==
    ASSUME ClientTypeOK, NEW h \in Hash,
           HandleTorrentOpen(h) \/ HandleTorrentRead(h) \/ HandleTorrentRelease(h)
    PROVE  ClientTypeOK'
<1>1. \A n \in Int \cup {Undefined, NaN} :
         /\ OneMoreRead(n) \in Int \cup {Undefined, NaN}
         /\ OneLessRead(n) \in Int \cup {Undefined, NaN}
  BY SentinelAssumption DEF OneMoreRead, OneLessRead
<1>2. Touch(h) => /\ idle' \in [Hash -> (0..MaxIdle) \cup {Undefined}]
                  /\ status' \in [Hash -> Status]
  BY MaxIdleType DEF ClientTypeOK, Touch, Status
<1>3. CASE HandleTorrentOpen(h)
  BY <1>1, <1>2, <1>3 DEF ClientTypeOK, HandleTorrentOpen
<1>4. CASE HandleTorrentRead(h)
  BY <1>2, <1>4 DEF ClientTypeOK, HandleTorrentRead
<1>5. CASE HandleTorrentRelease(h)
  BY <1>1, <1>5 DEF ClientTypeOK, HandleTorrentRelease
<1>6. QED
  BY <1>3, <1>4, <1>5

LEMMA UpdateTorrentStatusType ==
    ASSUME ClientTypeOK, UpdateTorrentStatus
    PROVE  ClientTypeOK'
<1>1. \A h \in Hash : NextStatus(h) \in Status
  BY DEF ClientTypeOK, NextStatus, Status
<1>2. QED
  BY <1>1 DEF ClientTypeOK, UpdateTorrentStatus

LEMMA PauseBetweenType ==
    ASSUME ClientTypeOK, NEW i, NEW k, PauseBetween(i, k)
    PROVE  ClientTypeOK'
  BY DEF ClientTypeOK, PauseBetween, Status

LEMMA TickType ==
    ASSUME ClientTypeOK, Tick
    PROVE  ClientTypeOK'
<1>1. \A n \in (0..MaxIdle) \cup {Undefined} : Aged(n) \in (0..MaxIdle) \cup {Undefined}
  BY MaxIdleType, SentinelAssumption DEF Aged
<1>2. QED
  BY <1>1 DEF ClientTypeOK, Tick

LEMMA ClientLostType == ClientLost => ClientTypeOK'
  BY DEF ClientLost, ClientTypeOK, Status

LEMMA ClientInitType == ClientInit => ClientTypeOK
  BY DEF ClientInit, ClientTypeOK, Status
=============================================================================
