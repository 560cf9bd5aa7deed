------------------------ MODULE ClickHouseClientProofs ------------------------
(***************************************************************************)
(* No telemetry event is ever nowhere, and none reaches the server twice,   *)
(* while nothing went wrong that the client does not survive: for any       *)
(* events and tables, any number of retries, processes and signals, signals *)
(* within signals included, with a server that refuses as often as it likes, *)
(* and with close() at any time.                                            *)
(*                                                                         *)
(* Nothing is claimed after a mishap, and mishaps are never forgotten, so    *)
(* both invariants are about behaviours without one.  The first says who    *)
(* may empty the parked list or the file, and where the events are by then: *)
(* a drain that may still succeed has sent every table it is done with, a    *)
(* flush, interrupted or not, has what it went past in its buffer or in the  *)
(* file, a replay has parked it.  The second counts the copies of an event   *)
(* that may still be sent.                                                  *)
(***************************************************************************)
EXTENDS ClickHouseClient, FiniteSetTheorems, TLAPS

Tables == {TableOf[e] : e \in Events}

CallerType ==
    [at : {"idle", "send", "drain"}, event : Events \cup {Torn}, attempt : 0 .. MaxAttempts - 1,
     batch : Seq(Events), todo : SUBSET Tables, ok : BOOLEAN]

FlushType == [at : {"idle", "lines", "clear"}, next : Nat \ {0}, buffer : Seq(Events)]

MainType == [at : {"down", "replay", "remove", "up", "leaving"}, line : Nat \ {0}]

(* Without a mishap the file has no torn line. *)
ClientTypes ==
    /\ offered \subseteq Events
    /\ received \in [Events -> Nat]
    /\ pending \in Seq(Events)
    /\ disk \in Seq(Events)
    /\ caller \in CallerType
    /\ flush \in FlushType
    /\ outer \in Seq(FlushType)
    /\ main \in MainType

(* Until the constructor is done nobody writes and no handler runs. *)
Constructing ==
    main.at \in {"down", "replay", "remove"} => caller.at = "idle" /\ flush.at = "idle"

Sending == caller.at = "send" => caller.event \in Events

MemoryIsGone == main.at = "down" => pending = <<>>

Apart == flush.at # "idle" => caller.at # "drain"

(* What a flush went past is in its buffer or in the file, and in the file   *)
(* once that is closed.  It is so for a flush that is interrupted too: what  *)
(* the inner one clears from the list it has written.                        *)
Holds(f) ==
    /\ f.at = "lines" =>
          \A i \in 1 .. Len(pending) :
              i < f.next => pending[i] \in Lines(f.buffer) \cup Lines(disk)
    /\ f.at = "clear" => Lines(pending) \subseteq Lines(disk)

Gathered == Holds(flush)

Suspended ==
    /\ flush.at = "idle" => outer = <<>>
    /\ \A k \in DOMAIN outer : outer[k].at # "idle" /\ Holds(outer[k])

Replayed ==
    main.at \in {"replay", "remove"} =>
        \A i \in 1 .. Len(disk) :
            i < main.line \/ main.at = "remove" => disk[i] \in Lines(pending)

Draining ==
    caller.at = "drain" =>
        /\ Lines(pending) \subseteq Lines(caller.batch)
        /\ caller.ok =>
              \A e \in Lines(caller.batch) : TableOf[e] \in caller.todo \/ received[e] > 0

NothingLost == \A e \in offered : Somewhere(e)

Sound ==
    /\ ClientTypes
    /\ Constructing /\ Sending /\ MemoryIsGone /\ Apart
    /\ Gathered /\ Suspended /\ Replayed /\ Draining
    /\ NothingLost

Clean == mishaps \cap {"crash", "disk", "overlap", "cut", "spill", "left"} = {}

ClientInv == Clean => Sound
-----------------------------------------------------------------------------
(* The lines of lists. *)
LEMMA NoLines == Lines(<<>>) = {}
BY DEF Lines

LEMMA LinesAppend ==
    ASSUME NEW S, NEW s \in Seq(S), NEW e \in S
    PROVE  /\ Append(s, e) \in Seq(S)
           /\ Lines(Append(s, e)) = Lines(s) \cup {e}
<1>1. /\ Append(s, e) \in Seq(S) /\ Len(s) \in Nat
      /\ DOMAIN s = 1 .. Len(s)
      /\ DOMAIN Append(s, e) = 1 .. Len(s) + 1
      /\ Append(s, e)[Len(s) + 1] = e
      /\ \A i \in 1 .. Len(s) : Append(s, e)[i] = s[i]
  OBVIOUS
<1>2. Lines(Append(s, e)) \subseteq Lines(s) \cup {e}
  BY <1>1 DEF Lines
<1>3. Lines(s) \cup {e} \subseteq Lines(Append(s, e))
  <2>1. e \in Lines(Append(s, e))
    BY <1>1 DEF Lines
  <2>2. Lines(s) \subseteq Lines(Append(s, e))
    BY <1>1 DEF Lines
  <2> QED
    BY <2>1, <2>2
<1> QED
  BY <1>1, <1>2, <1>3

LEMMA LinesConcat ==
    ASSUME NEW S, NEW s \in Seq(S), NEW t \in Seq(S)
    PROVE  /\ s \o t \in Seq(S)
           /\ Lines(s) \cup Lines(t) \subseteq Lines(s \o t)
<1>1. /\ s \o t \in Seq(S) /\ Len(s) \in Nat /\ Len(t) \in Nat
      /\ DOMAIN s = 1 .. Len(s)
      /\ DOMAIN t = 1 .. Len(t)
      /\ DOMAIN (s \o t) = 1 .. Len(s) + Len(t)
      /\ \A i \in 1 .. Len(s) : (s \o t)[i] = s[i]
      /\ \A i \in 1 .. Len(t) : (s \o t)[Len(s) + i] = t[i]
  OBVIOUS
<1>2. Lines(s) \subseteq Lines(s \o t)
  BY <1>1 DEF Lines
<1>3. ASSUME NEW e \in Lines(t) PROVE e \in Lines(s \o t)
  <2>1. PICK i \in 1 .. Len(t) : t[i] = e
    BY <1>1, <1>3 DEF Lines
  <2>2. Len(s) + i \in DOMAIN (s \o t) /\ (s \o t)[Len(s) + i] = e
    BY <1>1, <2>1
  <2> QED
    BY <2>2 DEF Lines
<1> QED
  BY <1>1, <1>2, <1>3

(* What an INSERT does to the counts of the server. *)
LEMMA InsertedCounts ==
    ASSUME NEW list, NEW places, IsFiniteSet(places), received \in [Events -> Nat]
    PROVE  /\ Inserted(list, places) \in [Events -> Nat]
           /\ \A e \in Events : received[e] > 0 => Inserted(list, places)[e] > 0
           /\ \A i \in places : list[i] \in Events => Inserted(list, places)[list[i]] > 0
<1> DEFINE At(e) == {i \in places : list[i] = e}
<1>1. ASSUME NEW e PROVE IsFiniteSet(At(e)) /\ Cardinality(At(e)) \in Nat
  BY FS_Subset, FS_CardinalityType
<1>2. ASSUME NEW e, At(e) # {} PROVE Cardinality(At(e)) > 0
  BY <1>1, <1>2, FS_EmptySet
<1>3. \A e \in Events : Inserted(list, places)[e] = received[e] + Cardinality(At(e))
  BY DEF Inserted
<1>4. Inserted(list, places) \in [Events -> Nat]
  <2>1. Inserted(list, places) = [e \in Events |-> received[e] + Cardinality(At(e))]
    BY DEF Inserted
  <2> HIDE DEF At
  <2>2. \A e \in Events : received[e] + Cardinality(At(e)) \in Nat
    BY <1>1
  <2> QED
    BY <2>1, <2>2
<1>5. ASSUME NEW i \in places, list[i] \in Events
      PROVE  Inserted(list, places)[list[i]] > 0
  <2>1. i \in At(list[i])
    OBVIOUS
  <2>2. Cardinality(At(list[i])) > 0 /\ Cardinality(At(list[i])) \in Nat
    BY <1>1, <1>2, <2>1
  <2> HIDE DEF At
  <2> QED
    BY <1>3, <1>5, <2>2
<1> HIDE DEF At
<1> QED
  BY <1>1, <1>3, <1>4, <1>5

(* A caller that does nothing is a caller. *)
LEMMA NoCall == <<>> \in Seq(Events) /\ NotCalling \in CallerType /\ NotCalling.at = "idle"
<1>1. <<>> \in Seq(Events) /\ 0 \in 0 .. MaxAttempts - 1
  BY ClientAssumption
<1> QED
  BY <1>1 DEF NotCalling, CallerType

(* Mishaps are never forgotten. *)
LEMMA MishapsStay == [Next]_vars => mishaps \subseteq mishaps'
<1> SUFFICES ASSUME [Next]_vars PROVE mishaps \subseteq mishaps'
  OBVIOUS
<1>1. CASE UNCHANGED vars
  BY <1>1 DEF vars
<1>2. ASSUME NEW e \in Events, Write(e) PROVE mishaps' = mishaps
  BY <1>2 DEF Write
<1>3. CASE CallerStep
  <2>1. ASSUME NEW t, DrainTable(t) PROVE mishaps \subseteq mishaps'
    BY <2>1 DEF DrainTable, Blame
  <2> QED
    BY <1>3, <2>1 DEF CallerStep, SendOk, SendFails, DrainEnd, Blame
<1>4. CASE FlushStep
  BY <1>4 DEF FlushStep, FlushLine, FlushClose, FlushFails, FlushClear, Blame
<1>5. CASE MainStep
  BY <1>5 DEF MainStep, Start, ReplayLine, ReplayRemove, ReplayStops, Exited, Blame
<1>6. CASE Sigterm \/ Close \/ Exit \/ Crash
  BY <1>6 DEF Sigterm, Close, Exit, Crash, Blame
<1> QED
  BY <1>1, <1>2, <1>3, <1>4, <1>5, <1>6 DEF Next

LEMMA CleanBefore == [Next]_vars /\ Clean' => Clean
BY MishapsStay DEF Clean

(* What a flush went past stays where it is while the list is the same and  *)
(* the file grows, while the caller appends to what the flush has yet to     *)
(* see, and when the list is emptied.                                        *)
LEMMA HoldsGrows ==
    ASSUME NEW f, Holds(f), pending' = pending, Lines(disk) \subseteq Lines(disk)'
    PROVE  Holds(f)'
BY DEF Holds

LEMMA HoldsAppend ==
    ASSUME NEW f \in FlushType, Holds(f), f.at # "clear", f.next <= Len(pending) + 1,
           pending \in Seq(Events), NEW e \in Events,
           pending' = Append(pending, e), disk' = disk
    PROVE  Holds(f)'
<1>1. /\ Len(pending') = Len(pending) + 1 /\ Len(pending) \in Nat /\ f.next \in Nat
      /\ \A i \in 1 .. Len(pending) : pending'[i] = pending[i]
  BY DEF FlushType
<1> QED
  BY <1>1 DEF Holds

(* A flush that returns goes back to what it interrupted. *)
LEMMA Returned ==
    ASSUME flush \in FlushType, outer \in Seq(FlushType), Return
    PROVE  /\ flush' \in FlushType /\ outer' \in Seq(FlushType)
           /\ outer = <<>> => flush' = NotFlushing /\ outer' = <<>>
           /\ outer # <<>> => flush' = outer[1] /\ 1 \in DOMAIN outer
           /\ \A k \in DOMAIN outer' : k + 1 \in DOMAIN outer /\ outer'[k] = outer[k + 1]
<1>1. NotFlushing \in FlushType
  BY NoCall DEF NotFlushing, FlushType
<1>2. CASE outer = <<>>
  BY <1>1, <1>2 DEF Return
<1>3. CASE outer # <<>>
  BY <1>3 DEF Return
<1> QED
  BY <1>2, <1>3
-----------------------------------------------------------------------------
LEMMA InitClient == Init => ClientInv
<1> SUFFICES ASSUME Init PROVE Sound
  BY DEF ClientInv
<1>1. ClientTypes
  BY NoCall DEF Init, ClientTypes, NotFlushing, FlushType, MainType
<1> QED
  BY <1>1, NoLines DEF Init, Sound, Constructing, Sending, MemoryIsGone, Apart, Gathered, Suspended, Holds, Replayed,
     Draining, NothingLost, NotCalling, NotFlushing

(* The caller. *)
LEMMA WriteStep ==
    ASSUME Sound, NEW e \in Events, Write(e)
    PROVE  Sound'
<1>1. /\ caller' \in CallerType /\ caller'.at = "send" /\ caller'.event = e
      /\ caller.at = "idle" /\ main.at \in {"up", "leaving"}
  <2>1. caller' = [NotCalling EXCEPT !.at = "send", !.event = e]
    BY DEF Write
  <2>2. caller.at = "idle" /\ main.at \in {"up", "leaving"}
    BY DEF Write
  <2> QED
    BY <2>1, <2>2, NoCall DEF NotCalling, CallerType
<1>2. ClientTypes'
  BY <1>1 DEF Sound, ClientTypes, Write
<1>3. NothingLost'
  BY <1>1 DEF Sound, NothingLost, Somewhere, Write
<1> QED
  BY <1>1, <1>2, <1>3 DEF Sound, Constructing, Sending, MemoryIsGone, Apart, Gathered, Suspended, Holds, Replayed,
     Draining, Write

LEMMA SendOkStep ==
    ASSUME Sound, SendOk, Clean'
    PROVE  Sound'
<1> DEFINE sent == Inserted(<<caller.event>>, {1})
<1>1. /\ caller.at = "send" /\ received' = sent
      /\ UNCHANGED <<offered, pending, flush, outer, main, disk>>
      /\ ClientTypes
  BY DEF SendOk, Sound
<1>2. /\ sent \in [Events -> Nat]
      /\ \A e \in Events : received[e] > 0 => sent[e] > 0
      /\ caller.event \in Events => sent[caller.event] > 0
  <2>1. IsFiniteSet({1})
    BY FS_Singleton
  <2> QED
    BY <1>1, <2>1, InsertedCounts DEF ClientTypes
<1> HIDE DEF sent
<1>3. NothingLost'
  <2>1. ASSUME NEW e \in offered PROVE Somewhere(e)'
    BY <1>1, <1>2 DEF Sound, ClientTypes, NothingLost, Somewhere
  <2> QED
    BY <1>1, <2>1 DEF NothingLost
<1>4. CASE pending = <<>>
  <2>1. caller' = NotCalling
    BY <1>4 DEF SendOk
  <2>2. caller' \in CallerType /\ caller'.at = "idle"
    BY <2>1, NoCall
  <2>3. ClientTypes'
    BY <1>1, <1>2, <2>2 DEF ClientTypes
  <2> QED
    BY <1>1, <1>3, <2>2, <2>3 DEF Sound, Constructing, Sending, MemoryIsGone, Apart, Gathered, Suspended, Holds,
       Replayed, Draining
<1>5. CASE pending # <<>>
  <2> DEFINE todo == {TableOf[pending[i]] : i \in DOMAIN pending}
  <2>1. caller' = [NotCalling EXCEPT !.at = "drain", !.event = caller.event,
                                     !.batch = pending, !.todo = todo]
    BY <1>5 DEF SendOk
  <2>2. todo \in SUBSET Tables
    BY <1>1 DEF ClientTypes, Tables
  <2>3. \A e \in Lines(pending) : TableOf[e] \in todo
    BY DEF Lines
  <2> HIDE DEF todo
  <2>4. caller.event \in Events \cup {Torn}
    BY <1>1 DEF ClientTypes, CallerType
  <2>5. /\ caller' \in CallerType /\ caller'.at = "drain"
        /\ caller'.batch = pending /\ caller'.todo = todo
    BY <1>1, <2>1, <2>2, <2>4, NoCall DEF NotCalling, CallerType, ClientTypes
  <2>6. ClientTypes'
    BY <1>1, <1>2, <2>5 DEF ClientTypes
  <2>7. flush.at = "idle"
    BY <1>5 DEF SendOk, Blame, Clean
  <2>8. main.at \notin {"down", "replay", "remove"}
    BY <1>1 DEF Sound, Constructing
  <2>9. Draining'
    BY <1>1, <2>3, <2>5 DEF Draining
  <2> QED
    BY <1>1, <1>3, <2>5, <2>6, <2>7, <2>8, <2>9 DEF Sound, Constructing, Sending, MemoryIsGone, Apart, Gathered, Suspended, Holds, Replayed
<1> QED
  BY <1>4, <1>5

LEMMA SendFailsStep ==
    ASSUME Sound, SendFails, Clean'
    PROVE  Sound'
<1> DEFINE sent == Inserted(<<caller.event>>, {1})
<1>1. /\ caller.at = "send" /\ received' \in {sent, received}
      /\ UNCHANGED <<offered, flush, outer, main, disk>>
      /\ ClientTypes
  BY DEF SendFails, Sound
<1>2. /\ sent \in [Events -> Nat]
      /\ \A e \in Events : received[e] > 0 => sent[e] > 0
  <2>1. IsFiniteSet({1})
    BY FS_Singleton
  <2> QED
    BY <1>1, <2>1, InsertedCounts DEF ClientTypes
<1> HIDE DEF sent
<1>3. /\ received' \in [Events -> Nat]
      /\ \A e \in Events : received[e] > 0 => received'[e] > 0
  BY <1>1, <1>2 DEF ClientTypes
<1>4. main.at \notin {"down", "replay", "remove"}
  BY <1>1 DEF Sound, Constructing
<1>5. CASE caller.attempt + 1 < MaxAttempts
  <2>1. caller' = [caller EXCEPT !.attempt = @ + 1] /\ pending' = pending
    BY <1>5 DEF SendFails
  <2>2. caller' \in CallerType /\ caller'.at = "send" /\ caller'.event = caller.event
    <3>1. caller \in CallerType
      BY <1>1 DEF ClientTypes
    <3>2. caller.attempt + 1 \in 0 .. MaxAttempts - 1
      BY <1>5, <3>1, ClientAssumption DEF CallerType
    <3> QED
      BY <1>1, <2>1, <3>1, <3>2 DEF CallerType
  <2>3. ClientTypes'
    BY <1>1, <1>3, <2>1, <2>2 DEF ClientTypes
  <2>4. NothingLost'
    BY <1>1, <1>3, <2>1, <2>2 DEF Sound, ClientTypes, NothingLost, Somewhere
  <2> QED
    BY <1>1, <1>4, <2>1, <2>2, <2>3, <2>4 DEF Sound, Constructing, Sending, MemoryIsGone, Apart, Gathered, Suspended, Holds, Replayed, Draining
<1>6. CASE ~(caller.attempt + 1 < MaxAttempts)
  <2>1. caller' = NotCalling /\ pending' = Append(pending, caller.event)
    BY <1>6 DEF SendFails
  <2>2. caller' \in CallerType /\ caller'.at = "idle"
    BY <2>1, NoCall
  <2>3. /\ pending \in Seq(Events) /\ caller.event \in Events
        /\ pending' \in Seq(Events)
        /\ Lines(pending') = Lines(pending) \cup {caller.event}
    BY <1>1, <2>1, LinesAppend DEF Sound, Sending, ClientTypes
  <2>4. ClientTypes'
    BY <1>1, <1>3, <2>2, <2>3 DEF ClientTypes
  <2>5. ~PastTheEnd
    <3>1. caller.attempt \in 0 .. MaxAttempts - 1
      BY <1>1 DEF ClientTypes, CallerType
    <3>2. caller.attempt + 1 = MaxAttempts
      BY <1>6, <3>1, ClientAssumption
    <3> QED
      BY <3>2 DEF SendFails, Blame, Clean
  <2>6. Gathered' /\ Suspended'
    <3>1. flush \in FlushType /\ outer \in Seq(FlushType)
      BY <1>1 DEF ClientTypes
    <3>2. ASSUME NEW f \in FlushType, f \in {flush} \cup Range(outer), Holds(f)
          PROVE  Holds(f)'
      <4>1. f.at # "clear" /\ f.next <= Len(pending) + 1
        <5>1. f.next \in Nat /\ Len(pending) + 1 \in Nat
          BY <2>3, <3>2 DEF FlushType
        <5> QED
          BY <2>5, <3>2, <5>1 DEF PastTheEnd
      <4> QED
        BY <1>1, <2>1, <2>3, <3>2, <4>1, HoldsAppend
    <3>3. \A k \in DOMAIN outer : outer[k] \in FlushType /\ outer[k] \in Range(outer)
      BY <3>1 DEF Range
    <3> QED
      BY <1>1, <3>1, <3>2, <3>3 DEF Sound, Gathered, Suspended
  <2>7. NothingLost'
    <3>1. ASSUME NEW e \in offered PROVE Somewhere(e)'
      BY <1>1, <1>3, <2>3 DEF Sound, ClientTypes, NothingLost, Somewhere
    <3> QED
      BY <1>1, <3>1 DEF NothingLost
  <2> QED
    BY <1>1, <1>4, <2>2, <2>4, <2>5, <2>6, <2>7 DEF Sound, Constructing, Sending, MemoryIsGone,
       Apart, Replayed, Draining
<1> QED
  BY <1>5, <1>6

LEMMA DrainTableStep ==
    ASSUME Sound, NEW t, DrainTable(t)
    PROVE  Sound'
<1> DEFINE mine == {i \in DOMAIN caller.batch : TableOf[caller.batch[i]] = t}
           sent == Inserted(caller.batch, mine)
<1>1. /\ caller.at = "drain" /\ caller \in CallerType /\ caller.batch \in Seq(Events)
      /\ received \in [Events -> Nat]
      /\ UNCHANGED <<offered, pending, flush, outer, main, disk>>
      /\ ClientTypes
  BY DEF DrainTable, Sound, ClientTypes, CallerType
<1>2. PICK how : /\ received' = IF how = "refused" THEN received ELSE sent
                 /\ caller' = [caller EXCEPT !.todo = @ \ {t}, !.ok = @ /\ how = "ok"]
  BY DEF DrainTable
<1>3. IsFiniteSet(mine)
  <2>1. mine \subseteq 1 .. Len(caller.batch) /\ Len(caller.batch) \in Nat
    BY <1>1
  <2>2. IsFiniteSet(1 .. Len(caller.batch))
    BY <2>1, FS_Interval
  <2> QED
    BY <2>1, <2>2, FS_Subset
<1>4. /\ sent \in [Events -> Nat]
      /\ \A e \in Events : received[e] > 0 => sent[e] > 0
      /\ \A i \in mine : caller.batch[i] \in Events => sent[caller.batch[i]] > 0
  <2> HIDE DEF mine
  <2> QED
    BY <1>1, <1>3, InsertedCounts
<1>5. \A e \in Lines(caller.batch) : TableOf[e] = t => sent[e] > 0
  <2> HIDE DEF sent
  <2>1. ASSUME NEW e \in Lines(caller.batch), TableOf[e] = t PROVE sent[e] > 0
    <3>1. PICK i \in DOMAIN caller.batch : caller.batch[i] = e
      BY <2>1 DEF Lines
    <3>2. i \in mine /\ caller.batch[i] \in Events
      BY <1>1, <2>1, <3>1
    <3> QED
      BY <1>4, <3>1, <3>2
  <2> QED
    BY <2>1
<1> HIDE DEF mine, sent
<1>6. /\ received' \in [Events -> Nat]
      /\ \A e \in Events : received[e] > 0 => received'[e] > 0
  BY <1>1, <1>2, <1>4
<1>7. /\ caller' \in CallerType /\ caller'.at = "drain" /\ caller'.batch = caller.batch
      /\ caller'.todo = caller.todo \ {t}
  BY <1>1, <1>2 DEF CallerType
<1>8. caller'.ok => caller.ok /\ received' = sent
  BY <1>1, <1>2 DEF CallerType
<1>9. ClientTypes'
  BY <1>1, <1>6, <1>7 DEF ClientTypes
<1>10. Draining'
  <2>1. Lines(caller.batch) \subseteq Events
    BY <1>1 DEF Lines
  <2>2. ASSUME caller'.ok, NEW e \in Lines(caller.batch)
        PROVE  TableOf[e] \in caller'.todo \/ received'[e] > 0
    <3>1. TableOf[e] \in caller.todo \/ received[e] > 0
      BY <1>1, <1>8, <2>2 DEF Sound, Draining
    <3> QED
      BY <1>5, <1>6, <1>7, <1>8, <2>1, <2>2, <3>1
  <2> QED
    BY <1>1, <1>7, <2>2 DEF Sound, Draining
<1>11. NothingLost'
  <2>1. ASSUME NEW e \in offered PROVE Somewhere(e)'
    BY <1>1, <1>6 DEF Sound, ClientTypes, NothingLost, Somewhere
  <2> QED
    BY <1>1, <2>1 DEF NothingLost
<1> QED
  BY <1>1, <1>7, <1>9, <1>10, <1>11 DEF Sound, Constructing, Sending, MemoryIsGone, Apart, Gathered, Suspended, Holds, Replayed

LEMMA DrainEndStep ==
    ASSUME Sound, DrainEnd
    PROVE  Sound'
<1>1. /\ caller.at = "drain" /\ caller.todo = {} /\ caller' = NotCalling
      /\ pending' = IF caller.ok THEN <<>> ELSE pending
      /\ UNCHANGED <<offered, received, flush, outer, main, disk>>
      /\ ClientTypes
  BY DEF DrainEnd, Sound
<1>2. ClientTypes'
  BY <1>1, NoCall DEF ClientTypes
<1>3. flush.at = "idle" /\ main.at \notin {"down", "replay", "remove"}
  BY <1>1 DEF Sound, Apart, Constructing
<1>4. NothingLost'
  <2>1. ASSUME NEW e \in offered PROVE Somewhere(e)'
    <3>1. Somewhere(e)
      BY DEF Sound, NothingLost
    <3>2. CASE e \in Lines(pending)
      <4>1. caller.ok => received[e] > 0
        BY <1>1, <3>2 DEF Sound, Draining
      <4> QED
        BY <1>1, <3>2, <4>1 DEF Somewhere
    <3>3. CASE e \notin Lines(pending)
      BY <1>1, <3>1, <3>3 DEF Somewhere
    <3> QED
      BY <3>2, <3>3
  <2> QED
    BY <1>1, <2>1 DEF NothingLost
<1>5. caller'.at = "idle"
  BY <1>1, NoCall
<1>6. Gathered' /\ Suspended'
  BY <1>1, <1>3 DEF Sound, Gathered, Suspended, Holds
<1> QED
  BY <1>1, <1>2, <1>3, <1>4, <1>5, <1>6 DEF Sound, Constructing, Sending, MemoryIsGone, Apart,
     Replayed, Draining
-----------------------------------------------------------------------------
(* The flush. *)
LEMMA FlushLineStep ==
    ASSUME Sound, FlushLine
    PROVE  Sound'
<1>1. /\ flush.at = "lines" /\ flush.next <= Len(pending)
      /\ flush' = [flush EXCEPT !.buffer = Append(@, pending[flush.next]), !.next = @ + 1]
      /\ UNCHANGED <<offered, received, pending, caller, outer, main, disk>>
      /\ ClientTypes
  BY DEF FlushLine, Sound
<1>2. /\ flush \in FlushType /\ pending \in Seq(Events) /\ Len(pending) \in Nat
      /\ flush.next \in Nat \ {0} /\ flush.buffer \in Seq(Events)
  BY <1>1 DEF ClientTypes, FlushType
<1>3. pending[flush.next] \in Events
  BY <1>1, <1>2
<1>4. /\ Append(flush.buffer, pending[flush.next]) \in Seq(Events)
      /\ Lines(Append(flush.buffer, pending[flush.next]))
            = Lines(flush.buffer) \cup {pending[flush.next]}
  BY <1>2, <1>3, LinesAppend
<1>5. /\ flush' \in FlushType /\ flush'.at = "lines" /\ flush'.next = flush.next + 1
      /\ flush'.buffer = Append(flush.buffer, pending[flush.next])
  <2>1. flush.next + 1 \in Nat \ {0}
    BY <1>2
  <2> DEFINE more == Append(flush.buffer, pending[flush.next])
  <2>2. flush' = [flush EXCEPT !.buffer = more, !.next = flush.next + 1]
    BY <1>1, <1>2 DEF FlushType
  <2>3. more \in Seq(Events)
    BY <1>4
  <2> HIDE DEF more
  <2>4. /\ flush' \in FlushType /\ flush'.at = "lines" /\ flush'.next = flush.next + 1
        /\ flush'.buffer = more
    BY <1>1, <1>2, <2>1, <2>2, <2>3 DEF FlushType
  <2> QED
    BY <2>4 DEF more
<1>6. ClientTypes'
  BY <1>1, <1>5 DEF ClientTypes
<1>7. Gathered' /\ Suspended'
  <2>1. ASSUME NEW i \in 1 .. Len(pending), i < flush.next + 1
        PROVE  pending[i] \in Lines(flush'.buffer) \cup Lines(disk)
    <3>1. i < flush.next => pending[i] \in Lines(flush.buffer) \cup Lines(disk)
      BY <1>1, <2>1 DEF Sound, Gathered, Holds
    <3>2. i < flush.next \/ i = flush.next
      BY <1>2, <2>1
    <3> QED
      BY <1>4, <1>5, <3>1, <3>2
  <2>2. Gathered'
    BY <1>1, <1>2, <1>5, <2>1 DEF Gathered, Holds
  <2>3. ASSUME NEW k \in DOMAIN outer PROVE outer[k].at # "idle" /\ Holds(outer[k])'
    <3>1. outer[k].at # "idle" /\ Holds(outer[k])
      BY DEF Sound, Suspended
    <3> QED
      BY <1>1, <3>1 DEF Holds
  <2> QED
    BY <1>1, <1>5, <2>2, <2>3 DEF Suspended
<1>8. NothingLost'
  BY <1>1 DEF Sound, NothingLost, Somewhere
<1> QED
  BY <1>1, <1>5, <1>6, <1>7, <1>8 DEF Sound, Constructing, Sending, MemoryIsGone, Apart, Replayed,
     Draining

(* Without a torn line in the file, appending to it is appending. *)
LEMMA AppendedWhole ==
    ASSUME disk \in Seq(Events), NEW more \in Seq(Events)
    PROVE  /\ Appended(disk, more) = disk \o more
           /\ Appended(disk, more) \in Seq(Events)
           /\ Lines(disk) \cup Lines(more) \subseteq Lines(Appended(disk, more))
<1>1. disk # <<>> => Last(disk) \in Events
  BY DEF Last
<1>2. Appended(disk, more) = disk \o more
  BY <1>1, ClientAssumption DEF Appended
<1> QED
  BY <1>2, LinesConcat

LEMMA FlushCloseStep ==
    ASSUME Sound, FlushClose
    PROVE  Sound'
<1>1. /\ flush.at = "lines" /\ flush.next > Len(pending)
      /\ flush' = [flush EXCEPT !.at = "clear", !.buffer = <<>>]
      /\ disk' = Appended(disk, flush.buffer)
      /\ UNCHANGED <<offered, received, pending, caller, outer, main>>
      /\ ClientTypes
  BY DEF FlushClose, Sound
<1>2. /\ flush \in FlushType /\ pending \in Seq(Events) /\ Len(pending) \in Nat
      /\ flush.next \in Nat \ {0} /\ flush.buffer \in Seq(Events) /\ disk \in Seq(Events)
  BY <1>1 DEF ClientTypes, FlushType
<1>3. disk' \in Seq(Events) /\ Lines(disk) \cup Lines(flush.buffer) \subseteq Lines(disk')
  BY <1>1, <1>2, AppendedWhole
<1>4. flush' \in FlushType /\ flush'.at = "clear"
  BY <1>1, <1>2, NoCall DEF FlushType
<1>5. ClientTypes'
  BY <1>1, <1>3, <1>4 DEF ClientTypes
<1>6. Gathered'
  <2>1. \A i \in 1 .. Len(pending) : pending[i] \in Lines(flush.buffer) \cup Lines(disk)
    BY <1>1, <1>2 DEF Sound, Gathered, Holds
  <2>2. Lines(pending) \subseteq Lines(flush.buffer) \cup Lines(disk)
    BY <1>2, <2>1 DEF Lines
  <2> QED
    BY <1>1, <1>3, <1>4, <2>2 DEF Gathered, Holds
<1>7. Suspended'
  <2>1. ASSUME NEW k \in DOMAIN outer PROVE outer[k].at # "idle" /\ Holds(outer[k])'
    <3>1. outer[k].at # "idle" /\ Holds(outer[k])
      BY DEF Sound, Suspended
    <3>2. Lines(disk) \subseteq Lines(disk)'
      BY <1>3
    <3> QED
      BY <1>1, <3>1, <3>2, HoldsGrows
  <2> QED
    BY <1>1, <1>4, <2>1 DEF Suspended
<1>8. NothingLost'
  BY <1>1, <1>3 DEF Sound, NothingLost, Somewhere
<1>9. main.at \notin {"down", "replay", "remove"}
  BY <1>1 DEF Sound, Constructing
<1> QED
  BY <1>1, <1>4, <1>5, <1>6, <1>7, <1>8, <1>9 DEF Sound, Constructing, Sending, MemoryIsGone,
     Apart, Replayed, Draining

LEMMA FlushClearStep ==
    ASSUME Sound, FlushClear
    PROVE  Sound'
<1>1. /\ flush.at = "clear" /\ pending' = <<>> /\ Return
      /\ UNCHANGED <<offered, received, caller, main, disk>>
      /\ ClientTypes
  BY DEF FlushClear, Sound
<1>2. /\ flush \in FlushType /\ outer \in Seq(FlushType)
  BY <1>1 DEF ClientTypes
<1>3. /\ flush' \in FlushType /\ outer' \in Seq(FlushType)
      /\ outer = <<>> => flush' = NotFlushing /\ outer' = <<>>
      /\ outer # <<>> => flush' = outer[1] /\ 1 \in DOMAIN outer
      /\ \A k \in DOMAIN outer' : k + 1 \in DOMAIN outer /\ outer'[k] = outer[k + 1]
  BY <1>1, <1>2, Returned
<1>4. ClientTypes'
  BY <1>1, <1>3, NoCall DEF ClientTypes
<1>5. Gathered' /\ Suspended'
  <2>1. \A k \in DOMAIN outer : outer[k].at # "idle"
    BY DEF Sound, Suspended
  <2>3. Gathered'
    BY <1>1, NoLines DEF Gathered, Holds
  <2>4. \A k \in DOMAIN outer' : outer'[k].at # "idle"
    BY <1>3, <2>1
  <2>5. Len(pending') = 0 /\ Lines(pending') = {}
    BY <1>1, NoLines
  <2>6. flush'.at = "idle" => outer' = <<>>
    BY <1>3, <2>1
  <2> QED
    BY <2>3, <2>4, <2>5, <2>6 DEF Suspended, Holds
<1>6. Lines(pending) \subseteq Lines(disk)
  BY <1>1 DEF Sound, Gathered, Holds
<1>7. NothingLost'
  BY <1>1, <1>6 DEF Sound, NothingLost, Somewhere
<1>8. main.at \notin {"down", "replay", "remove"} /\ caller.at # "drain"
  BY <1>1 DEF Sound, Constructing, Apart
<1> QED
  BY <1>1, <1>4, <1>5, <1>7, <1>8 DEF Sound, Constructing, Sending, MemoryIsGone, Apart,
     Replayed, Draining

LEMMA FlushBegun ==
    StartFlush => /\ flush' \in FlushType /\ flush'.at = "lines" /\ flush'.next = 1
                  /\ flush'.buffer = <<>>
<1>1. NotFlushing \in FlushType
  BY NoCall DEF NotFlushing, FlushType
<1> QED
  BY <1>1 DEF StartFlush, FlushType, NotFlushing

(* A flush that begins, by SIGTERM or at exit, while nobody drains. *)
LEMMA FlushBegins ==
    ASSUME Sound, StartFlush, ClientTypes', caller.at # "drain",
           main.at \notin {"down", "replay", "remove"},
           main'.at \notin {"down", "replay", "remove"},
           Suspended', Lines(disk) \subseteq Lines(disk)',
           UNCHANGED <<offered, received, pending, caller>>
    PROVE  Sound'
<1>1. flush'.at = "lines" /\ flush'.next = 1
  BY FlushBegun
<1>2. pending \in Seq(Events) /\ Len(pending) \in Nat
  BY DEF Sound, ClientTypes
<1>3. Gathered'
  BY <1>1, <1>2 DEF Gathered, Holds
<1>4. NothingLost'
  BY DEF Sound, NothingLost, Somewhere
<1> QED
  BY <1>1, <1>3, <1>4 DEF Sound, Constructing, Sending, MemoryIsGone, Apart, Replayed, Draining

(* A flush that is interrupted between two lines has them in its buffer or   *)
(* in the file.                                                              *)
LEMMA SplitLines ==
    ASSUME NEW b \in Seq(Events), NEW there \in 0 .. Len(b)
    PROVE  /\ SubSeq(b, 1, there) \in Seq(Events)
           /\ SubSeq(b, there + 1, Len(b)) \in Seq(Events)
           /\ Lines(b) \subseteq Lines(SubSeq(b, 1, there)) \cup Lines(SubSeq(b, there + 1, Len(b)))
<1> DEFINE one == SubSeq(b, 1, there)
           two == SubSeq(b, there + 1, Len(b))
<1>1. Len(b) \in Nat /\ DOMAIN b = 1 .. Len(b) /\ there \in Nat /\ there <= Len(b)
  OBVIOUS
<1>2. /\ one \in Seq(Events) /\ DOMAIN one = 1 .. there
      /\ \A i \in 1 .. there : one[i] = b[i]
  BY <1>1
<1>3. /\ two \in Seq(Events) /\ DOMAIN two = 1 .. Len(b) - there
      /\ \A i \in 1 .. Len(b) - there : two[i] = b[there + i]
  BY <1>1
<1> HIDE DEF one, two
<1>4. ASSUME NEW i \in 1 .. Len(b) PROVE b[i] \in Lines(one) \cup Lines(two)
  <2>1. CASE i <= there
    BY <1>1, <1>2, <2>1 DEF Lines
  <2>2. CASE ~(i <= there)
    <3>1. i - there \in 1 .. Len(b) - there /\ there + (i - there) = i
      BY <1>1, <2>2
    <3>2. two[i - there] = b[i] /\ i - there \in DOMAIN two
      BY <1>3, <3>1
    <3> QED
      BY <3>2 DEF Lines
  <2> QED
    BY <2>1, <2>2
<1>5. Lines(b) \subseteq Lines(one) \cup Lines(two)
  BY <1>1, <1>4 DEF Lines
<1> QED
  BY <1>2, <1>3, <1>5 DEF one, two

LEMMA InterruptedBetweenLines ==
    ASSUME Sound, NEW there \in 0 .. Len(flush.buffer), Interrupted(there, FALSE),
           pending' = pending, flush'.at # "idle"
    PROVE  /\ disk' \in Seq(Events) /\ outer' \in Seq(FlushType)
           /\ Lines(disk) \subseteq Lines(disk)' /\ Suspended'
<1> DEFINE b == flush.buffer
           one == SubSeq(b, 1, there)
           two == SubSeq(b, there + 1, Len(b))
<1> PICK frame : frame = [flush EXCEPT !.buffer = two]
  OBVIOUS
<1>1. /\ flush \in FlushType /\ outer \in Seq(FlushType) /\ disk \in Seq(Events)
      /\ b \in Seq(Events)
  BY DEF Sound, ClientTypes, FlushType
<1>2. /\ one \in Seq(Events) /\ two \in Seq(Events)
      /\ Lines(b) \subseteq Lines(one) \cup Lines(two)
  BY <1>1, SplitLines
<1>3. /\ disk' = Appended(disk, one)
      /\ outer' = IF flush.at = "idle" THEN outer ELSE <<frame>> \o outer
  <2>1. one \o <<>> = one
    BY <1>2
  <2> QED
    BY <2>1 DEF Interrupted, Spilled, Unspilled
<1>4. disk' \in Seq(Events) /\ Lines(disk) \cup Lines(one) \subseteq Lines(disk')
  <2> HIDE DEF one
  <2> QED
    BY <1>1, <1>2, <1>3, AppendedWhole
<1>5. /\ frame \in FlushType /\ frame.at = flush.at /\ frame.next = flush.next
      /\ frame.buffer = two
  <2> HIDE DEF two
  <2> QED
    BY <1>1, <1>2 DEF FlushType
<1> HIDE DEF one, two
<1>6. Holds(frame)'
  <2>1. Holds(flush)
    BY DEF Sound, Gathered
  <2>2. Lines(pending)' = Lines(pending) /\ pending' = pending
    OBVIOUS
  <2>3. ASSUME flush.at = "lines", NEW i \in 1 .. Len(pending), i < flush.next
        PROVE  pending[i] \in Lines(two) \cup Lines(disk')
    <3>1. pending[i] \in Lines(b) \cup Lines(disk)
      BY <2>1, <2>3 DEF Holds
    <3> QED
      BY <1>2, <1>4, <3>1
  <2>4. flush.at = "clear" => Lines(pending) \subseteq Lines(disk')
    BY <1>4, <2>1 DEF Holds
  <2> HIDE DEF b
  <2> QED
    BY <1>5, <2>2, <2>3, <2>4 DEF Holds
<1>7. ASSUME NEW f, \E k \in DOMAIN outer : outer[k] = f
      PROVE  f.at # "idle" /\ Holds(f)'
  <2>1. f.at # "idle" /\ Holds(f)
    BY <1>7 DEF Sound, Suspended
  <2>2. Lines(disk) \subseteq Lines(disk)'
    BY <1>4
  <2> QED
    BY <2>1, <2>2, HoldsGrows
<1>8. CASE flush.at = "idle"
  <2>1. outer' = outer
    BY <1>3, <1>8
  <2> QED
    BY <1>1, <1>4, <1>7, <2>1 DEF Suspended
<1>9. CASE flush.at # "idle"
  <2>1. outer' = <<frame>> \o outer
    BY <1>3, <1>9
  <2>2. /\ outer' \in Seq(FlushType)
        /\ \A k \in DOMAIN outer' : outer'[k] = frame \/ \E l \in DOMAIN outer : outer'[k] = outer[l]
    <3>1. /\ Len(outer) \in Nat /\ DOMAIN outer = 1 .. Len(outer)
          /\ outer' \in Seq(FlushType) /\ DOMAIN outer' = 1 .. Len(outer) + 1
          /\ outer'[1] = frame
          /\ \A l \in 1 .. Len(outer) : outer'[l + 1] = outer[l]
      BY <1>1, <1>5, <2>1
    <3>2. ASSUME NEW k \in DOMAIN outer', k # 1 PROVE \E l \in DOMAIN outer : outer'[k] = outer[l]
      <4>1. k - 1 \in 1 .. Len(outer) /\ (k - 1) + 1 = k
        BY <3>1, <3>2
      <4> QED
        BY <3>1, <4>1
    <3> QED
      BY <3>1, <3>2
  <2>3. ASSUME NEW f, \E k \in DOMAIN outer' : outer'[k] = f
        PROVE  f.at # "idle" /\ Holds(f)'
    <3>1. f = frame \/ \E l \in DOMAIN outer : outer[l] = f
      BY <2>2, <2>3
    <3>2. frame.at # "idle"
      BY <1>5, <1>9
    <3>3. CASE f = frame
      BY <1>6, <3>2, <3>3 DEF Holds
    <3>4. CASE \E l \in DOMAIN outer : outer[l] = f
      BY <1>7, <3>4
    <3> QED
      BY <3>1, <3>3, <3>4
  <2>4. \A k \in DOMAIN outer' : outer'[k].at # "idle"
    BY <2>3
  <2> QED
    BY <1>4, <2>2, <2>3, <2>4 DEF Suspended, Holds
<1> QED
  BY <1>8, <1>9

LEMMA SigtermStep ==
    ASSUME Sound, Sigterm, Clean'
    PROVE  Sound'
<1>1. /\ StartFlush /\ UNCHANGED <<offered, received, pending, caller, main>>
      /\ ClientTypes
  BY DEF Sigterm, Sound
<1>2. main.at \in {"up", "leaving"} /\ caller.at # "drain"
  BY DEF Sigterm, Blame, Clean
<1>3. PICK there \in 0 .. Len(flush.buffer) : Interrupted(there, FALSE)
  BY DEF Sigterm, Blame, Clean
<1>4. flush' \in FlushType /\ flush'.at # "idle"
  BY <1>1, FlushBegun
<1>5. /\ disk' \in Seq(Events) /\ outer' \in Seq(FlushType)
      /\ Lines(disk) \subseteq Lines(disk)' /\ Suspended'
  BY <1>1, <1>3, <1>4, InterruptedBetweenLines
<1>6. ClientTypes'
  BY <1>1, <1>4, <1>5 DEF ClientTypes
<1> QED
  BY <1>1, <1>2, <1>5, <1>6, FlushBegins

LEMMA ExitStep ==
    ASSUME Sound, Exit, Clean'
    PROVE  Sound'
<1>1. /\ UNCHANGED <<offered, received, pending, caller, outer, disk>>
      /\ main.at = "up" /\ flush.at = "idle" /\ main' = [main EXCEPT !.at = "leaving"]
      /\ ClientTypes
  BY DEF Exit, Sound
<1>2. main' \in MainType /\ main'.at = "leaving"
  BY <1>1 DEF ClientTypes, MainType
<1>3. CASE registered /\ pending # <<>>
  <2>1. StartFlush
    BY <1>3 DEF Exit
  <2>2. caller.at # "drain"
    BY <1>3 DEF Exit, Blame, Clean
  <2>3. flush' \in FlushType /\ flush'.at # "idle"
    BY <2>1, FlushBegun
  <2>4. ClientTypes'
    BY <1>1, <1>2, <2>3 DEF ClientTypes
  <2>5. Suspended'
    BY <1>1, <2>3 DEF Sound, Suspended, Holds
  <2>6. Lines(disk) \subseteq Lines(disk)'
    BY <1>1
  <2> QED
    BY <1>1, <1>2, <2>1, <2>2, <2>4, <2>5, <2>6, FlushBegins
<1>4. CASE ~(registered /\ pending # <<>>)
  <2>1. flush' = flush
    BY <1>4 DEF Exit
  <2>2. ClientTypes'
    BY <1>1, <1>2, <2>1 DEF ClientTypes
  <2>3. NothingLost'
    BY <1>1 DEF Sound, NothingLost, Somewhere
  <2> QED
    BY <1>1, <1>2, <2>1, <2>2, <2>3 DEF Sound, Constructing, Sending, MemoryIsGone, Apart, Gathered, Suspended, Holds, Replayed, Draining
<1> QED
  BY <1>3, <1>4
-----------------------------------------------------------------------------
(* The main thread. *)
LEMMA StartStep ==
    ASSUME Sound, Start
    PROVE  Sound'
<1>1. /\ main.at = "down" /\ UNCHANGED <<offered, received, pending, caller, flush, outer, disk>>
      /\ main' = [at |-> IF disk = <<>> THEN "up" ELSE "replay", line |-> 1]
      /\ ClientTypes
  BY DEF Start, Sound
<1>2. main' \in MainType /\ main'.at \in {"up", "replay"} /\ main'.line = 1
  BY <1>1 DEF MainType
<1>3. ClientTypes'
  BY <1>1, <1>2 DEF ClientTypes
<1>4. caller.at = "idle" /\ flush.at = "idle"
  BY <1>1 DEF Sound, Constructing
<1>5. Replayed'
  BY <1>2 DEF Replayed
<1>6. NothingLost'
  BY <1>1 DEF Sound, NothingLost, Somewhere
<1> QED
  BY <1>1, <1>2, <1>3, <1>4, <1>5, <1>6 DEF Sound, Constructing, Sending, MemoryIsGone, Apart,
     Gathered, Suspended, Holds, Draining

LEMMA ReplayStopsStep ==
    ASSUME Sound, ReplayStops, main.at \in {"replay", "remove"},
           UNCHANGED <<offered, received, caller, flush, outer>>
    PROVE  Sound'
<1>1. /\ main' = [main EXCEPT !.at = "up"] /\ UNCHANGED <<pending, disk>>
      /\ ClientTypes
  BY DEF ReplayStops, Sound
<1>2. main' \in MainType /\ main'.at = "up"
  BY <1>1 DEF ClientTypes, MainType
<1>3. ClientTypes'
  BY <1>1, <1>2 DEF ClientTypes
<1>4. NothingLost'
  BY <1>1 DEF Sound, NothingLost, Somewhere
<1> QED
  BY <1>1, <1>2, <1>3, <1>4 DEF Sound, Constructing, Sending, MemoryIsGone, Apart, Gathered,
     Suspended, Holds, Replayed, Draining

LEMMA ReplayLineStep ==
    ASSUME Sound, ReplayLine
    PROVE  Sound'
<1>1. /\ main.at = "replay" /\ UNCHANGED <<offered, received, caller, flush, outer>>
      /\ ClientTypes
  BY DEF ReplayLine, Sound
<1>2. /\ main \in MainType /\ main.line \in Nat \ {0}
      /\ disk \in Seq(Events) /\ Len(disk) \in Nat /\ pending \in Seq(Events)
  BY <1>1 DEF ClientTypes, MainType
<1>3. caller.at = "idle" /\ flush.at = "idle"
  BY <1>1 DEF Sound, Constructing
<1>4. \A i \in 1 .. Len(disk) : i < main.line => disk[i] \in Lines(pending)
  BY <1>1 DEF Sound, Replayed
<1>5. CASE main.line > Len(disk) /\ main' = [main EXCEPT !.at = "remove"]
           /\ pending' = pending /\ disk' = disk
  <2>1. main' = [main EXCEPT !.at = "remove"] /\ pending' = pending
    BY <1>5
  <2>2. main' \in MainType /\ main'.at = "remove"
    BY <1>2, <2>1 DEF MainType
  <2>3. ClientTypes'
    BY <1>1, <1>5, <2>2 DEF ClientTypes
  <2>4. Replayed'
    BY <1>1, <1>2, <1>4, <1>5, <2>1 DEF Replayed
  <2>5. NothingLost'
    BY <1>1, <1>5 DEF Sound, NothingLost, Somewhere
  <2> QED
    BY <1>1, <1>3, <2>1, <2>2, <2>3, <2>4, <2>5 DEF Sound, Constructing, Sending, MemoryIsGone,
       Apart, Gathered, Suspended, Holds, Draining
<1>6. CASE main.line <= Len(disk) /\ main' = [main EXCEPT !.line = @ + 1]
           /\ pending' = Append(pending, disk[main.line]) /\ disk' = disk
  <2>1. disk[main.line] \in Events
    BY <1>2, <1>6
  <2>2. main' = [main EXCEPT !.line = @ + 1] /\ pending' = Append(pending, disk[main.line])
    BY <1>6
  <2>3. /\ pending' \in Seq(Events)
        /\ Lines(pending') = Lines(pending) \cup {disk[main.line]}
    BY <1>2, <2>1, <2>2, LinesAppend
  <2>4. main' \in MainType /\ main'.at = "replay" /\ main'.line = main.line + 1
    BY <1>1, <1>2, <2>2 DEF MainType
  <2>5. ClientTypes'
    BY <1>1, <1>6, <2>3, <2>4 DEF ClientTypes
  <2>6. ASSUME NEW i \in 1 .. Len(disk), i < main.line + 1
        PROVE  disk[i] \in Lines(pending')
    <3>1. i < main.line \/ i = main.line
      BY <1>2, <2>6
    <3> QED
      BY <1>4, <2>3, <3>1
  <2>7. Replayed'
    BY <1>1, <1>6, <2>4, <2>6 DEF Replayed
  <2>8. NothingLost'
    BY <1>1, <1>6, <2>3 DEF Sound, NothingLost, Somewhere
  <2> QED
    BY <1>1, <1>3, <2>4, <2>5, <2>7, <2>8 DEF Sound, Constructing, Sending, MemoryIsGone,
       Apart, Gathered, Suspended, Holds, Draining
<1>7. CASE ReplayStops
  BY <1>1, <1>7, ReplayStopsStep
<1> QED
  BY <1>5, <1>6, <1>7 DEF ReplayLine

LEMMA ReplayRemoveStep ==
    ASSUME Sound, ReplayRemove
    PROVE  Sound'
<1>0. CASE ReplayStops
  BY <1>0, ReplayStopsStep DEF ReplayRemove
<1> SUFFICES ASSUME ~ReplayStops PROVE Sound'
  BY <1>0
<1>1. /\ main.at = "remove" /\ disk' = <<>> /\ main' = [main EXCEPT !.at = "up"]
      /\ UNCHANGED <<offered, received, pending, caller, flush, outer>>
      /\ ClientTypes
  BY DEF ReplayRemove, Sound
<1>2. main' \in MainType /\ main'.at = "up"
  BY <1>1 DEF ClientTypes, MainType
<1>3. ClientTypes'
  BY <1>1, <1>2, NoCall DEF ClientTypes
<1>4. caller.at = "idle" /\ flush.at = "idle"
  BY <1>1 DEF Sound, Constructing
<1>5. Lines(disk) \subseteq Lines(pending)
  <2>1. disk \in Seq(Events) /\ DOMAIN disk = 1 .. Len(disk)
    BY <1>1 DEF ClientTypes
  <2>2. \A i \in 1 .. Len(disk) : disk[i] \in Lines(pending)
    BY <1>1 DEF Sound, Replayed
  <2>3. ASSUME NEW e \in Lines(disk) PROVE e \in Lines(pending)
    BY <2>1, <2>2, <2>3 DEF Lines
  <2> QED
    BY <2>3
<1>6. NothingLost'
  BY <1>1, <1>5 DEF Sound, NothingLost, Somewhere
<1> QED
  BY <1>1, <1>2, <1>3, <1>4, <1>6 DEF Sound, Constructing, Sending, MemoryIsGone, Apart, Gathered, Suspended, Holds, Replayed, Draining

LEMMA ExitedStep ==
    ASSUME Sound, Exited, Clean'
    PROVE  Sound'
<1>1. /\ UNCHANGED <<offered, received, disk>>
      /\ main' = [at |-> "down", line |-> 1] /\ pending' = <<>>
      /\ caller' = NotCalling /\ flush' = NotFlushing /\ outer' = <<>>
      /\ ClientTypes
  BY DEF Exited, Gone, Sound
<1>2. caller.at = "idle" /\ pending = <<>>
  BY DEF Exited, Blame, Clean
<1>3. /\ main' \in MainType /\ main'.at = "down"
      /\ flush' \in FlushType /\ flush'.at = "idle"
      /\ caller' \in CallerType /\ caller'.at = "idle"
  BY <1>1, NoCall DEF MainType, FlushType, NotFlushing
<1>4. ClientTypes'
  BY <1>1, <1>3, NoCall DEF ClientTypes
<1>5. NothingLost'
  BY <1>1, <1>2 DEF Sound, NothingLost, Somewhere
<1> QED
  BY <1>1, <1>3, <1>4, <1>5 DEF Sound, Constructing, Sending, MemoryIsGone, Apart, Gathered, Suspended, Holds, Replayed, Draining

(* Nothing but the list of handlers changes, or nothing at all. *)
LEMMA StutterStep ==
    ASSUME Sound, UNCHANGED <<offered, received, pending, caller, flush, outer, main, disk>>
    PROVE  Sound'
BY DEF Sound, ClientTypes, Constructing, Sending, MemoryIsGone, Apart, Gathered, Suspended, Holds, Replayed,
   Draining, NothingLost, Somewhere
-----------------------------------------------------------------------------
LEMMA NextClient == ClientInv /\ [Next]_vars => ClientInv'
<1> SUFFICES ASSUME ClientInv, [Next]_vars, Clean' PROVE Sound'
  BY DEF ClientInv
<1>1. Sound
  BY CleanBefore DEF ClientInv
<1>2. CASE UNCHANGED vars
  BY <1>1, <1>2, StutterStep DEF vars, process
<1>3. CASE \E e \in Events : Write(e)
  BY <1>1, <1>3, WriteStep
<1>4. CASE CallerStep
  BY <1>1, <1>4, SendOkStep, SendFailsStep, DrainEndStep, DrainTableStep DEF CallerStep
<1>5. CASE FlushStep
  <2>1. ~FlushFails
    BY DEF FlushFails, Blame, Clean
  <2> QED
    BY <1>1, <1>5, <2>1, FlushLineStep, FlushCloseStep, FlushClearStep DEF FlushStep
<1>6. CASE MainStep
  BY <1>1, <1>6, StartStep, ReplayLineStep, ReplayRemoveStep, ExitedStep DEF MainStep
<1>7. CASE Sigterm \/ Exit
  BY <1>1, <1>7, SigtermStep, ExitStep
<1>8. CASE Close
  BY <1>1, <1>8, StutterStep DEF Close
<1>9. ~Crash
  BY DEF Crash, Blame, Clean
<1> QED
  BY <1>2, <1>3, <1>4, <1>5, <1>6, <1>7, <1>8, <1>9 DEF Next

(* No event is ever nowhere without a crash, a failing disk, a flush that   *)
(* meets the writer, a replay cut by SIGTERM, a flush interrupted within a   *)
(* line, or an exit with events in hand (_write_events,                      *)
(* _drain_pending_queue, _flush_queue_to_disk, _replay_flushed_events).      *)
THEOREM NothingIsLost == Spec => []LossNeedsMishap
<1>1. ClientInv => LossNeedsMishap
  BY DEF ClientInv, Clean, LossNeedsMishap, Sound, NothingLost
<1> QED
  BY <1>1, InitClient, NextClient, PTL DEF Spec
-----------------------------------------------------------------------------
(* Why the server gets an event once.  Of an event that it may still be      *)
(* sent there is one copy: the event of the write under way, one place of   *)
(* the parked list, or one line of the file that is still to be replayed.   *)
(* A line that a replay has gone past counts no more, even when a SIGTERM    *)
(* in the middle of the replay writes the parked events behind it; and only *)
(* between the closing of the file and the clearing of the list is an event *)
(* in both.  A flush that another one interrupts without being a mishap had  *)
(* no lines yet, and finds the list empty.  A drain that failed for its only *)
(* table has sent nothing.                                                  *)

(* The lines of the file that are still to be replayed.                     *)
Live == {j \in DOMAIN disk : IF main.at = "replay" THEN j >= main.line ELSE main.at # "remove"}

Distinct(s, places) == \A i, j \in places : s[i] = s[j] => i = j

(* An event that no INSERT has reached, and that was given to the client.   *)
Unsent(e) == e \in offered /\ received[e] = 0

(* Nobody calls before the constructor is done, and a dead process holds    *)
(* nothing.                                                                 *)
Beginning ==
    /\ main.at \in {"down", "replay", "remove"} => caller.at = "idle"
    /\ main.at = "down" => flush.at = "idle" /\ pending = <<>>

FlushAlone == flush.at # "idle" => caller.at # "drain"

(* A flush that was interrupted with lines in hand is a mishap, so one that *)
(* waits has none: it has yet to begin.                                     *)
Fresh == [at |-> "lines", next |-> 1, buffer |-> <<>>]

Waiting ==
    /\ flush.at = "idle" => outer = <<>>
    /\ \A k \in DOMAIN outer : outer[k] = Fresh

(* The buffer of a flush is what it went past.                              *)
Copied ==
    /\ flush.at = "lines" =>
          /\ flush.next <= Len(pending) + 1
          /\ Len(flush.buffer) = flush.next - 1
          /\ \A i \in 1 .. flush.next - 1 : flush.buffer[i] = pending[i]
    /\ flush.at # "lines" => flush.buffer = <<>>

(* One copy of an event that can still be sent.                             *)
OneCopy ==
    /\ Distinct(pending, DOMAIN pending)
    /\ Distinct(disk, Live)
    /\ flush.at # "clear" => \A i \in DOMAIN pending, j \in Live : pending[i] # disk[j]

CopiesUnsent ==
    /\ \A j \in Live : Unsent(disk[j])
    /\ \A i \in DOMAIN pending : pending[i] \in offered
    /\ caller.at # "drain" => \A i \in DOMAIN pending : Unsent(pending[i])

OnTheWay ==
    caller.at = "send" =>
        /\ caller.event \in Events /\ Unsent(caller.event)
        /\ \A i \in DOMAIN pending : pending[i] # caller.event
        /\ \A j \in Live : disk[j] # caller.event

(* A drain that failed for the only table it had sent nothing.              *)
DrainedOnce ==
    caller.at = "drain" =>
        /\ caller.batch = pending
        /\ caller.todo \subseteq {TableOf[pending[i]] : i \in DOMAIN pending}
        /\ ~caller.ok => caller.todo = {}
        /\ \A i \in DOMAIN pending :
               ~caller.ok \/ TableOf[pending[i]] \in caller.todo => received[pending[i]] = 0

AtMostOnce ==
    \A e \in Events : received[e] <= 1 /\ (e \notin offered => received[e] = 0)

Single ==
    /\ ClientTypes /\ Beginning /\ FlushAlone /\ Waiting /\ Copied
    /\ OneCopy /\ CopiesUnsent /\ OnTheWay /\ DrainedOnce /\ AtMostOnce

NoDouble ==
    mishaps \cap {"unanswered", "partial", "overlap", "again", "disk", "kept", "crash"} = {}

OnceInv == NoDouble => Single

LEMMA NoDoubleBefore == [Next]_vars /\ NoDouble' => NoDouble
BY MishapsStay DEF NoDouble

(* A signal that is no mishap interrupts nothing, or a flush without lines. *)
LEMMA InterruptedFresh ==
    ASSUME ClientTypes, Copied, NEW there \in 0 .. Len(flush.buffer), NEW cut \in BOOLEAN,
           cut => there < Len(flush.buffer), Interrupted(there, cut),
           flush.at # "clear", ~(flush.next > 1)
    PROVE  /\ disk' = disk /\ outer' \in Seq(FlushType)
           /\ \A k \in DOMAIN outer' : outer'[k] = Fresh \/ \E l \in DOMAIN outer : outer'[k] = outer[l]
<1>1. /\ flush \in FlushType /\ outer \in Seq(FlushType) /\ disk \in Seq(Events)
      /\ flush.next = 1 /\ flush.at \in {"idle", "lines"}
  BY DEF ClientTypes, FlushType
<1>2. flush.buffer = <<>> /\ Len(flush.buffer) = 0
  <2>1. flush.buffer \in Seq(Events)
    BY <1>1 DEF FlushType
  <2>2. Len(flush.buffer) = 0 \/ flush.buffer = <<>>
    BY <1>1 DEF Copied
  <2> QED
    BY <2>1, <2>2
<1>3. there = 0 /\ cut = FALSE
  BY <1>2
<1>4. Spilled(there, cut) = <<>> /\ Unspilled(there, cut) = <<>>
  <2>1. Spilled(0, FALSE) = <<>> /\ Unspilled(0, FALSE) = <<>>
    BY <1>2 DEF Spilled, Unspilled
  <2> QED
    BY <1>3, <2>1
<1>5. disk' = disk
  <2>1. Appended(disk, <<>>) = disk \o <<>>
    BY DEF Appended
  <2> QED
    BY <1>1, <1>4, <2>1 DEF Interrupted
<1>6. CASE flush.at = "idle"
  BY <1>1, <1>5, <1>6 DEF Interrupted
<1>7. CASE flush.at = "lines"
  <2>1. [flush EXCEPT !.buffer = <<>>] = flush /\ flush = Fresh
    BY <1>1, <1>2, <1>7 DEF FlushType, Fresh
  <2>2. outer' = <<flush>> \o outer
    BY <1>4, <1>7, <2>1 DEF Interrupted
  <2>3. /\ Len(outer) \in Nat /\ DOMAIN outer = 1 .. Len(outer)
        /\ outer' \in Seq(FlushType) /\ DOMAIN outer' = 1 .. Len(outer) + 1
        /\ outer'[1] = flush
        /\ \A l \in 1 .. Len(outer) : outer'[l + 1] = outer[l]
    BY <1>1, <2>2
  <2>4. ASSUME NEW k \in DOMAIN outer', k # 1 PROVE \E l \in DOMAIN outer : outer'[k] = outer[l]
    <3>1. k - 1 \in 1 .. Len(outer) /\ (k - 1) + 1 = k
      BY <2>3, <2>4
    <3> QED
      BY <2>3, <3>1
  <2> QED
    BY <1>5, <2>1, <2>3, <2>4
<1> QED
  BY <1>1, <1>6, <1>7

(* Types survive any step without a torn line. *)
LEMMA TypesStep ==
    ASSUME ClientTypes, Copied, caller.at = "send" => caller.event \in Events,
           [Next]_vars, NoDouble'
    PROVE  ClientTypes'
<1>0. /\ caller \in CallerType /\ flush \in FlushType /\ main \in MainType
      /\ outer \in Seq(FlushType)
      /\ pending \in Seq(Events) /\ disk \in Seq(Events) /\ received \in [Events -> Nat]
      /\ caller.batch \in Seq(Events) /\ flush.buffer \in Seq(Events)
      /\ flush.next \in Nat \ {0} /\ main.line \in Nat \ {0}
  BY DEF ClientTypes, CallerType, FlushType, MainType
<1>1. ASSUME NEW list, NEW places, IsFiniteSet(places)
      PROVE  Inserted(list, places) \in [Events -> Nat]
  BY <1>0, <1>1, InsertedCounts
<1>2. IsFiniteSet({1}) /\ NotFlushing \in FlushType
  <2>1. NotFlushing \in FlushType
    BY NoCall DEF NotFlushing, FlushType
  <2> QED
    BY <2>1, FS_Singleton
<1>3. CASE UNCHANGED vars
  BY <1>3 DEF vars, process, ClientTypes
<1>4. CASE \E e \in Events : Write(e)
  <2>1. PICK e \in Events : Write(e)
    BY <1>4
  <2>2. caller' = [NotCalling EXCEPT !.at = "send", !.event = e]
    BY <2>1 DEF Write
  <2>3. caller' \in CallerType
    BY <2>2, NoCall DEF CallerType
  <2> QED
    BY <2>1, <2>3 DEF Write, ClientTypes
<1>5. CASE SendOk
  <2>1. caller' \in CallerType
    <3> DEFINE todo == {TableOf[pending[i]] : i \in DOMAIN pending}
    <3>1. todo \subseteq Tables
      BY <1>0 DEF Tables
    <3>2. caller' = NotCalling \/ caller' = [NotCalling EXCEPT
              !.at = "drain", !.event = caller.event, !.batch = pending, !.todo = todo]
      BY <1>5 DEF SendOk
    <3>3. caller.event \in Events \cup {Torn}
      BY <1>0 DEF CallerType
    <3> HIDE DEF todo
    <3> QED
      BY <1>0, <3>1, <3>2, <3>3, NoCall DEF CallerType
  <2> QED
    BY <1>1, <1>2, <1>5, <2>1 DEF SendOk, ClientTypes
<1>6. CASE SendFails
  <2>1. received' \in [Events -> Nat]
    BY <1>0, <1>1, <1>2, <1>6 DEF SendFails
  <2>2. caller' \in CallerType /\ pending' \in Seq(Events)
    <3>1. CASE caller.attempt + 1 < MaxAttempts
      <4>1. caller.attempt + 1 \in 0 .. MaxAttempts - 1
        BY <1>0, <3>1, ClientAssumption DEF CallerType
      <4> QED
        BY <1>0, <1>6, <3>1, <4>1 DEF SendFails, CallerType
    <3>2. CASE ~(caller.attempt + 1 < MaxAttempts)
      <4>1. caller' = NotCalling /\ pending' = Append(pending, caller.event)
        BY <1>6, <3>2 DEF SendFails
      <4>2. caller.event \in Events
        BY <1>6 DEF SendFails
      <4> QED
        BY <1>0, <4>1, <4>2, NoCall, LinesAppend
    <3> QED
      BY <3>1, <3>2
  <2> QED
    BY <1>6, <2>1, <2>2 DEF SendFails, ClientTypes
<1>7. ASSUME NEW t, DrainTable(t) PROVE ClientTypes'
  <2> DEFINE mine == {i \in DOMAIN caller.batch : TableOf[caller.batch[i]] = t}
  <2>1. IsFiniteSet(mine)
    <3>1. mine \subseteq 1 .. Len(caller.batch) /\ IsFiniteSet(1 .. Len(caller.batch))
      <4>1. Len(caller.batch) \in Nat /\ DOMAIN caller.batch = 1 .. Len(caller.batch)
        BY <1>0
      <4> QED
        BY <4>1, FS_Interval
    <3> QED
      BY <3>1, FS_Subset
  <2>2. received' \in {received, Inserted(caller.batch, mine)}
    BY <1>7 DEF DrainTable
  <2>3. \E ok \in BOOLEAN : caller' = [caller EXCEPT !.todo = @ \ {t}, !.ok = ok]
    BY <1>0, <1>7 DEF DrainTable, CallerType
  <2>4. caller' \in CallerType
    BY <1>0, <2>3 DEF CallerType
  <2> HIDE DEF mine
  <2>5. received' \in [Events -> Nat]
    BY <1>0, <1>1, <2>1, <2>2
  <2> QED
    BY <1>7, <2>4, <2>5 DEF DrainTable, ClientTypes
<1>8. CASE DrainEnd
  BY <1>0, <1>8, NoCall DEF DrainEnd, ClientTypes
<1>9. CASE FlushLine
  <2>1. pending[flush.next] \in Events /\ flush.next + 1 \in Nat \ {0}
    BY <1>0, <1>9 DEF FlushLine
  <2>2. Append(flush.buffer, pending[flush.next]) \in Seq(Events)
    BY <1>0, <2>1
  <2>3. flush' \in FlushType
    BY <1>0, <1>9, <2>1, <2>2 DEF FlushLine, FlushType
  <2> QED
    BY <1>9, <2>3 DEF FlushLine, ClientTypes
<1>10. CASE FlushClose
  <2>1. disk # <<>> => Last(disk) \in Events
    BY <1>0 DEF Last
  <2>2. disk' = disk \o flush.buffer
    BY <1>10, <2>1, ClientAssumption DEF FlushClose, Appended
  <2>3. disk' \in Seq(Events)
    BY <1>0, <2>2, LinesConcat
  <2>4. flush' \in FlushType
    BY <1>0, <1>10, NoCall DEF FlushClose, FlushType
  <2> QED
    BY <1>10, <2>3, <2>4 DEF FlushClose, ClientTypes
<1>11. CASE FlushClear
  <2>1. flush' \in FlushType /\ outer' \in Seq(FlushType)
    BY <1>0, <1>11, Returned DEF FlushClear
  <2> QED
    BY <1>11, <2>1, NoCall DEF FlushClear, ClientTypes
<1>12. ~FlushFails /\ ~Crash
  BY DEF FlushFails, Crash, Blame, NoDouble
<1>13. CASE Start
  <2>1. main' \in MainType
    BY <1>13 DEF Start, MainType
  <2> QED
    BY <1>13, <2>1 DEF Start, ClientTypes
<1>14. CASE ReplayLine
  <2>1. ~ReplayStops
    BY DEF ReplayStops, Blame, NoDouble
  <2>2. main' \in MainType /\ disk' = disk
    <3>1. /\ disk' = disk
          /\ \/ main' = [main EXCEPT !.at = "remove"]
             \/ main' = [main EXCEPT !.line = main.line + 1]
      BY <1>0, <1>14, <2>1 DEF ReplayLine, MainType
    <3>2. main.line + 1 \in Nat \ {0}
      BY <1>0
    <3> QED
      BY <1>0, <3>1, <3>2 DEF MainType
  <2>3. pending' \in Seq(Events)
    <3>1. main.line <= Len(disk) => disk[main.line] \in Events
      BY <1>0
    <3> QED
      <4>1. pending' = pending \/
                (main.line <= Len(disk) /\ pending' = Append(pending, disk[main.line]))
        BY <1>14, <2>1 DEF ReplayLine
      <4>2. ASSUME NEW e \in Events PROVE Append(pending, e) \in Seq(Events)
        BY <1>0
      <4> QED
        BY <1>0, <3>1, <4>1, <4>2
  <2> QED
    BY <1>14, <2>2, <2>3 DEF ReplayLine, ClientTypes
<1>15. CASE ReplayRemove
  <2>1. ~ReplayStops
    BY DEF ReplayStops, Blame, NoDouble
  <2>2. main' \in MainType /\ disk' = <<>> /\ pending' = pending
    BY <1>0, <1>15, <2>1 DEF ReplayRemove, MainType
  <2> QED
    BY <1>15, <2>2, NoCall DEF ReplayRemove, ClientTypes
<1>16. CASE Exited
  <2>1. main' \in MainType
    BY <1>16 DEF Exited, Gone, MainType
  <2> QED
    BY <1>2, <1>16, <2>1, NoCall DEF Exited, Gone, ClientTypes
<1>17. CASE Sigterm
  <2>1. PICK there \in 0 .. Len(flush.buffer), cut \in BOOLEAN :
            /\ cut => there < Len(flush.buffer)
            /\ Interrupted(there, cut)
            /\ flush.at # "clear" /\ ~(flush.next > 1)
    BY <1>17 DEF Sigterm, Blame, NoDouble
  <2>2. disk' = disk /\ outer' \in Seq(FlushType)
    BY <2>1, InterruptedFresh
  <2>3. flush' \in FlushType
    BY <1>17, FlushBegun DEF Sigterm
  <2> QED
    BY <1>0, <1>17, <2>2, <2>3 DEF Sigterm, ClientTypes
<1>18. CASE Close
  BY <1>18 DEF Close, ClientTypes
<1>19. CASE Exit
  <2>1. main' \in MainType /\ flush' \in FlushType
    BY <1>0, <1>19, FlushBegun DEF Exit, MainType
  <2> QED
    BY <1>19, <2>1 DEF Exit, ClientTypes
<1> QED
  BY <1>3, <1>4, <1>5, <1>6, <1>7, <1>8, <1>9, <1>10, <1>11, <1>12, <1>13, <1>14, <1>15, <1>16,
     <1>17, <1>18, <1>19 DEF Next, CallerStep, FlushStep, MainStep
(* An INSERT of events that differ adds one to the count of each.           *)
LEMMA InsertedOnce ==
    ASSUME NEW list, NEW places, IsFiniteSet(places), received \in [Events -> Nat],
           Distinct(list, places), NEW e \in Events
    PROVE  Inserted(list, places)[e] =
               IF \E i \in places : list[i] = e THEN received[e] + 1 ELSE received[e]
<1> DEFINE At == {i \in places : list[i] = e}
<1>1. Inserted(list, places)[e] = received[e] + Cardinality(At)
  BY DEF Inserted
<1>2. CASE \E i \in places : list[i] = e
  <2>1. PICK i \in places : list[i] = e
    BY <1>2
  <2>2. At = {i}
    BY <2>1 DEF Distinct
  <2>3. Cardinality(At) = 1
    BY <2>2, FS_Singleton
  <2> QED
    BY <1>1, <1>2, <2>3
<1>3. CASE ~\E i \in places : list[i] = e
  <2>1. At = {}
    BY <1>3
  <2>2. Cardinality(At) = 0
    BY <2>1, FS_EmptySet
  <2> QED
    BY <1>1, <1>3, <2>2
<1> QED
  BY <1>2, <1>3

LEMMA InitOnce == Init => OnceInv
<1> SUFFICES ASSUME Init PROVE Single
  BY DEF OnceInv
<1>1. ClientTypes
  BY NoCall DEF Init, ClientTypes, NotFlushing, FlushType, MainType
<1>2. DOMAIN pending = {} /\ Live = {}
  BY DEF Init, Live
<1> QED
  BY <1>1, <1>2 DEF Init, Single, Beginning, FlushAlone, Waiting, Copied, OneCopy, CopiesUnsent, OnTheWay,
     DrainedOnce, AtMostOnce, Distinct, NotCalling, NotFlushing

LEMMA WriteOnce ==
    ASSUME Single, ClientTypes', NEW e \in Events, Write(e)
    PROVE  Single'
<1>1. /\ caller'.at = "send" /\ caller'.event = e
      /\ caller.at = "idle" /\ main.at \in {"up", "leaving"} /\ e \notin offered
      /\ offered' = offered \cup {e}
      /\ UNCHANGED <<received, pending, flush, outer, main, disk>>
  BY DEF Write, NotCalling
<1>2. Live' = Live
  BY <1>1 DEF Live
<1>3. OnTheWay'
  BY <1>1, <1>2 DEF Single, AtMostOnce, CopiesUnsent, OnTheWay, Unsent
<1>4. CopiesUnsent' /\ AtMostOnce'
  BY <1>1, <1>2 DEF Single, AtMostOnce, CopiesUnsent, Unsent
<1>5. OneCopy'
  BY <1>1, <1>2 DEF Single, OneCopy, Distinct
<1>6. Beginning' /\ FlushAlone' /\ Waiting' /\ Copied' /\ DrainedOnce'
  BY <1>1 DEF Single, Beginning, FlushAlone, Waiting, Copied, DrainedOnce
<1> QED
  BY <1>3, <1>4, <1>5, <1>6 DEF Single

LEMMA SendOkOnce ==
    ASSUME Single, ClientTypes', SendOk, NoDouble'
    PROVE  Single'
<1> DEFINE todo == {TableOf[pending[i]] : i \in DOMAIN pending}
<1>1. /\ caller.at = "send" /\ received' = Inserted(<<caller.event>>, {1})
      /\ UNCHANGED <<offered, pending, flush, outer, main, disk>>
      /\ ClientTypes /\ received \in [Events -> Nat] /\ pending \in Seq(Events) /\ disk \in Seq(Events)
  BY DEF SendOk, Single, ClientTypes
<1>2. \A e \in Events : received'[e] = IF e = caller.event THEN received[e] + 1 ELSE received[e]
  <2> DEFINE list == <<caller.event>>
  <2>1. IsFiniteSet({1}) /\ Distinct(list, {1}) /\ list[1] = caller.event
    BY FS_Singleton DEF Distinct
  <2>2. \A e \in Events : received'[e] =
            IF \E i \in {1} : list[i] = e THEN received[e] + 1 ELSE received[e]
    <3>1. received' = Inserted(list, {1})
      BY <1>1
    <3> HIDE DEF list
    <3> QED
      BY <1>1, <2>1, <3>1, InsertedOnce
  <2>3. \A e \in Events : (\E i \in {1} : list[i] = e) <=> e = caller.event
    BY <2>1
  <2> QED
    BY <2>2, <2>3
<1>3. /\ caller.event \in Events /\ Unsent(caller.event)
      /\ \A i \in DOMAIN pending : pending[i] # caller.event /\ pending[i] \in Events
      /\ \A j \in Live : disk[j] # caller.event /\ disk[j] \in Events
  BY <1>1 DEF Single, OnTheWay, Live
<1>4. Live' = Live
  BY <1>1 DEF Live
<1>5. main.at \notin {"down", "replay", "remove"}
  BY <1>1 DEF Single, Beginning
<1>6. \/ caller'.at = "idle"
      \/ /\ caller'.at = "drain" /\ caller'.batch = pending /\ caller'.todo = todo /\ caller'.ok
         /\ flush.at = "idle"
  <2>1. CASE pending = <<>>
    BY <2>1, NoCall DEF SendOk
  <2>2. CASE pending # <<>>
    <3>1. caller' = [NotCalling EXCEPT !.at = "drain", !.event = caller.event,
                                       !.batch = pending, !.todo = todo]
      BY <2>2 DEF SendOk
    <3>2. flush.at = "idle"
      BY <2>2 DEF SendOk, Blame, NoDouble
    <3> QED
      BY <3>1, <3>2 DEF NotCalling
  <2> QED
    BY <2>1, <2>2
<1>7. \A e \in Events : e # caller.event /\ Unsent(e) => Unsent(e)'
  BY <1>1, <1>2 DEF Unsent
<1>8. CopiesUnsent'
  BY <1>1, <1>3, <1>4, <1>7 DEF Single, CopiesUnsent
<1>9. AtMostOnce'
  BY <1>1, <1>2, <1>3 DEF Single, AtMostOnce, Unsent
<1>10. DrainedOnce'
  <2>1. \A i \in DOMAIN pending : received'[pending[i]] = 0
    BY <1>1, <1>3, <1>7 DEF Single, CopiesUnsent, Unsent
  <2> QED
    BY <1>1, <1>6, <2>1 DEF DrainedOnce
<1>11. OneCopy'
  BY <1>1, <1>4 DEF Single, OneCopy, Distinct
<1>12. Beginning' /\ FlushAlone' /\ Waiting' /\ Copied' /\ OnTheWay'
  BY <1>1, <1>5, <1>6 DEF Single, Beginning, FlushAlone, Waiting, Copied, OnTheWay
<1> QED
  BY <1>8, <1>9, <1>10, <1>11, <1>12 DEF Single

LEMMA SendFailsOnce ==
    ASSUME Single, ClientTypes', SendFails, NoDouble'
    PROVE  Single'
<1>1. /\ caller.at = "send" /\ caller \in CallerType
      /\ UNCHANGED <<offered, flush, outer, main, disk>>
      /\ pending \in Seq(Events) /\ caller.event \in Events
  BY DEF SendFails, Single, ClientTypes, OnTheWay
<1>2. received' = received
  BY DEF SendFails, Blame, NoDouble
<1>3. Live' = Live
  BY <1>1 DEF Live
<1>4. main.at \notin {"down", "replay", "remove"}
  BY <1>1 DEF Single, Beginning
<1>5. CASE caller.attempt + 1 < MaxAttempts
  <2>1. /\ caller'.at = "send" /\ caller'.event = caller.event /\ pending' = pending
    BY <1>1, <1>5 DEF SendFails, CallerType
  <2>2. CopiesUnsent' /\ AtMostOnce' /\ OnTheWay'
    BY <1>1, <1>2, <1>3, <2>1 DEF Single, CopiesUnsent, AtMostOnce, OnTheWay, Unsent
  <2>3. OneCopy'
    BY <1>1, <1>3, <2>1 DEF Single, OneCopy, Distinct
  <2>4. Beginning' /\ FlushAlone' /\ Waiting' /\ Copied' /\ DrainedOnce'
    BY <1>1, <1>4, <2>1 DEF Single, Beginning, FlushAlone, Waiting, Copied, DrainedOnce
  <2> QED
    BY <2>2, <2>3, <2>4 DEF Single
<1>6. CASE ~(caller.attempt + 1 < MaxAttempts)
  <2>1. caller'.at = "idle" /\ pending' = Append(pending, caller.event)
    BY <1>6, NoCall DEF SendFails
  <2>2. flush.at # "clear"
    <3>1. caller.attempt + 1 = MaxAttempts
      BY <1>1, <1>6, ClientAssumption DEF CallerType
    <3> QED
      BY <3>1 DEF SendFails, PastTheEnd, Blame, NoDouble
  <2>3. /\ Len(pending) \in Nat /\ DOMAIN pending = 1 .. Len(pending)
        /\ DOMAIN pending' = 1 .. Len(pending) + 1 /\ Len(pending') = Len(pending) + 1
        /\ \A i \in 1 .. Len(pending) : pending'[i] = pending[i]
        /\ pending'[Len(pending) + 1] = caller.event
    BY <1>1, <2>1
  <2>4. \A i \in DOMAIN pending' :
            (i \in DOMAIN pending /\ pending'[i] = pending[i])
            \/ (i = Len(pending) + 1 /\ pending'[i] = caller.event)
    BY <2>3
  <2>5. /\ Unsent(caller.event)
        /\ \A i \in DOMAIN pending : pending[i] # caller.event
        /\ \A j \in Live : disk[j] # caller.event
    BY <1>1 DEF Single, OnTheWay
  <2>6. OneCopy'
    <3>1. Distinct(pending, DOMAIN pending)'
      BY <2>4, <2>5 DEF Single, OneCopy, Distinct
    <3>2. Distinct(disk, Live)'
      BY <1>1, <1>3 DEF Single, OneCopy, Distinct
    <3>3. \A i \in DOMAIN pending', j \in Live : pending'[i] # disk[j]
      BY <2>2, <2>4, <2>5 DEF Single, OneCopy
    <3> QED
      BY <1>1, <1>3, <3>1, <3>2, <3>3 DEF OneCopy
  <2>7. CopiesUnsent'
    BY <1>1, <1>2, <1>3, <2>4, <2>5 DEF Single, CopiesUnsent, Unsent
  <2>8. Copied'
    <3>1. flush \in FlushType
      BY DEF Single, ClientTypes
    <3> QED
      BY <1>1, <2>3, <3>1 DEF Single, Copied, FlushType
  <2>9. pending' # <<>>
    BY <2>3
  <2>10. Beginning' /\ FlushAlone' /\ Waiting' /\ OnTheWay' /\ DrainedOnce' /\ AtMostOnce'
    BY <1>1, <1>2, <1>4, <2>1, <2>9 DEF Single, Beginning, FlushAlone, Waiting, OnTheWay, DrainedOnce,
       AtMostOnce
  <2> QED
    BY <2>6, <2>7, <2>8, <2>10 DEF Single
<1> QED
  BY <1>5, <1>6
LEMMA DrainTableOnce ==
    ASSUME Single, ClientTypes', NEW t, DrainTable(t), NoDouble'
    PROVE  Single'
<1> DEFINE mine == {i \in DOMAIN caller.batch : TableOf[caller.batch[i]] = t}
<1>1. /\ caller.at = "drain" /\ caller \in CallerType /\ t \in caller.todo
      /\ received \in [Events -> Nat] /\ pending \in Seq(Events) /\ disk \in Seq(Events)
      /\ UNCHANGED <<offered, pending, flush, outer, main, disk>>
  BY DEF DrainTable, Single, ClientTypes
<1>2. /\ caller.batch = pending /\ caller.ok
      /\ caller.todo \subseteq {TableOf[pending[i]] : i \in DOMAIN pending}
      /\ \A i \in DOMAIN pending : TableOf[pending[i]] \in caller.todo => received[pending[i]] = 0
      /\ Distinct(pending, DOMAIN pending)
  BY <1>1 DEF Single, DrainedOnce, OneCopy, CallerType
<1>3. PICK how \in {"ok", "refused"} :
          /\ received' = IF how = "refused" THEN received ELSE Inserted(caller.batch, mine)
          /\ caller' = [caller EXCEPT !.todo = @ \ {t}, !.ok = @ /\ how = "ok"]
          /\ how = "refused" => mine = DOMAIN caller.batch
  BY DEF DrainTable, Blame, NoDouble
<1>4. /\ caller'.at = "drain" /\ caller'.batch = pending /\ caller'.todo = caller.todo \ {t}
      /\ caller'.ok <=> how = "ok"
  BY <1>1, <1>2, <1>3 DEF CallerType
<1>5. Live' = Live
  BY <1>1 DEF Live
<1>6. main.at \notin {"down", "replay", "remove"} /\ flush.at = "idle"
  BY <1>1 DEF Single, Beginning, FlushAlone, Waiting
<1>7. OneCopy'
  BY <1>1, <1>5 DEF Single, OneCopy, Distinct
<1>8. \A j \in Live, i \in DOMAIN pending : disk[j] # pending[i]
  BY <1>6 DEF Single, OneCopy
<1>9. CASE how = "refused"
  <2>1. received' = received
    BY <1>3, <1>9
  <2>2. \A i \in DOMAIN pending : TableOf[pending[i]] = t
    BY <1>2, <1>3, <1>9
  <2>3. caller'.todo = {} /\ ~caller'.ok
    BY <1>2, <1>4, <1>9, <2>2
  <2>4. DrainedOnce'
    BY <1>1, <1>2, <1>4, <2>1, <2>2, <2>3 DEF DrainedOnce
  <2>5. CopiesUnsent' /\ AtMostOnce'
    BY <1>1, <1>4, <1>5, <2>1 DEF Single, CopiesUnsent, AtMostOnce, Unsent
  <2> QED
    BY <1>1, <1>4, <1>6, <1>7, <2>4, <2>5 DEF Single, Beginning, FlushAlone, Waiting, Copied, OnTheWay
<1>10. CASE how = "ok"
  <2>1. \A e \in Events : received'[e] =
            IF \E i \in mine : pending[i] = e THEN received[e] + 1 ELSE received[e]
    <3>1. mine \subseteq DOMAIN pending /\ IsFiniteSet(DOMAIN pending)
      <4>1. Len(pending) \in Nat /\ DOMAIN pending = 1 .. Len(pending)
        BY <1>1
      <4> QED
        BY <1>2, <4>1, FS_Interval
    <3>2. IsFiniteSet(mine) /\ Distinct(pending, mine)
      BY <1>2, <3>1, FS_Subset DEF Distinct
    <3>3. received' = Inserted(pending, mine)
      BY <1>2, <1>3, <1>10
    <3> HIDE DEF mine
    <3> TAKE e \in Events
    <3>4. received \in [Events -> Nat]
      BY <1>1
    <3>5. Inserted(pending, mine)[e] =
              IF \E i \in mine : pending[i] = e THEN received[e] + 1 ELSE received[e]
      BY <3>2, <3>4, InsertedOnce
    <3> QED
      BY <3>3, <3>5
  <2>2. \A i \in mine : i \in DOMAIN pending /\ TableOf[pending[i]] = t
    BY <1>2
  <2>3. \A e \in Events : received[e] = 0 \/ (\A i \in mine : pending[i] # e)
    BY <1>1, <1>2, <2>2
  <2> HIDE DEF mine
  <2>4. \A i \in DOMAIN pending : TableOf[pending[i]] # t => received'[pending[i]] = received[pending[i]]
    BY <1>1, <2>1, <2>2
  <2>5. DrainedOnce'
    <3>1. \A i \in DOMAIN pending : TableOf[pending[i]] \in caller'.todo => received'[pending[i]] = 0
      BY <1>2, <1>4, <2>4
    <3> QED
      BY <1>1, <1>2, <1>4, <1>10, <3>1 DEF DrainedOnce
  <2>6. \A j \in Live : received'[disk[j]] = received[disk[j]]
    <3>1. \A j \in Live : disk[j] \in Events
      BY <1>1 DEF Live
    <3> QED
      BY <1>8, <2>1, <2>2, <3>1
  <2>7. CopiesUnsent'
    BY <1>1, <1>4, <1>5, <2>6 DEF Single, CopiesUnsent, Unsent
  <2>8. AtMostOnce'
    <3>1. \A i \in mine : pending[i] \in offered
      BY <2>2 DEF Single, CopiesUnsent
    <3>2. ASSUME NEW e \in Events
          PROVE  received'[e] <= 1 /\ (e \notin offered => received'[e] = 0)
      <4>1. received[e] <= 1 /\ (e \notin offered => received[e] = 0)
        BY DEF Single, AtMostOnce
      <4> QED
        BY <2>1, <2>3, <3>1, <4>1
    <3> QED
      BY <1>1, <3>2 DEF AtMostOnce
  <2> QED
    BY <1>1, <1>4, <1>6, <1>7, <2>5, <2>7, <2>8 DEF Single, Beginning, FlushAlone, Waiting, Copied, OnTheWay
<1> QED
  BY <1>9, <1>10

LEMMA DrainEndOnce ==
    ASSUME Single, ClientTypes', DrainEnd
    PROVE  Single'
<1>1. /\ caller.at = "drain" /\ caller.todo = {} /\ caller'.at = "idle"
      /\ pending' = IF caller.ok THEN <<>> ELSE pending
      /\ UNCHANGED <<offered, received, flush, outer, main, disk>>
  BY NoCall DEF DrainEnd
<1>2. main.at \notin {"down", "replay", "remove"} /\ flush.at = "idle"
  BY <1>1 DEF Single, Beginning, FlushAlone, Waiting
<1>3. ~caller.ok => \A i \in DOMAIN pending : received[pending[i]] = 0
  BY <1>1 DEF Single, DrainedOnce
<1>4. Live' = Live
  BY <1>1 DEF Live
<1>5. pending' = pending \/ DOMAIN pending' = {}
  BY <1>1
<1>6. OneCopy'
  BY <1>1, <1>4, <1>5 DEF Single, OneCopy, Distinct
<1>7. CopiesUnsent'
  BY <1>1, <1>3, <1>4 DEF Single, CopiesUnsent, Unsent
<1> QED
  BY <1>1, <1>2, <1>6, <1>7 DEF Single, Beginning, FlushAlone, Waiting, Copied, OnTheWay, DrainedOnce, AtMostOnce

LEMMA FlushLineOnce ==
    ASSUME Single, ClientTypes', FlushLine
    PROVE  Single'
<1>1. /\ flush.at = "lines" /\ flush.next <= Len(pending) /\ flush \in FlushType
      /\ flush' = [flush EXCEPT !.buffer = Append(@, pending[flush.next]), !.next = @ + 1]
      /\ UNCHANGED <<offered, received, pending, caller, outer, main, disk>>
  BY DEF FlushLine, Single, ClientTypes
<1>2. /\ flush'.at = "lines" /\ flush'.next = flush.next + 1
      /\ flush'.buffer = Append(flush.buffer, pending[flush.next])
      /\ flush.buffer \in Seq(Events) /\ flush.next \in Nat \ {0}
  BY <1>1 DEF FlushType
<1>3. /\ Len(flush.buffer) = flush.next - 1 /\ Len(pending) \in Nat
      /\ \A i \in 1 .. flush.next - 1 : flush.buffer[i] = pending[i]
  BY <1>1 DEF Single, Copied, ClientTypes
<1>4. /\ Len(flush'.buffer) = flush.next
      /\ \A i \in 1 .. flush.next - 1 : flush'.buffer[i] = flush.buffer[i]
      /\ flush'.buffer[flush.next] = pending[flush.next]
  BY <1>2, <1>3
<1>5. Copied'
  <2>1. ASSUME NEW i \in 1 .. flush.next PROVE flush'.buffer[i] = pending[i]
    <3>1. i \in 1 .. flush.next - 1 \/ i = flush.next
      BY <1>2
    <3> QED
      BY <1>3, <1>4, <3>1
  <2>2. flush'.next - 1 = flush.next /\ flush'.next <= Len(pending) + 1
    BY <1>1, <1>2, <1>3
  <2> QED
    BY <1>1, <1>2, <1>4, <2>1, <2>2 DEF Copied
<1>6. Live' = Live
  BY <1>1 DEF Live
<1>7. OneCopy' /\ CopiesUnsent'
  BY <1>1, <1>2, <1>6 DEF Single, OneCopy, Distinct, CopiesUnsent, Unsent
<1> QED
  BY <1>1, <1>2, <1>5, <1>6, <1>7 DEF Single, Beginning, FlushAlone, Waiting, OnTheWay, DrainedOnce, AtMostOnce, Unsent
LEMMA FlushCloseOnce ==
    ASSUME Single, ClientTypes', FlushClose
    PROVE  Single'
<1>1. /\ flush.at = "lines" /\ flush.next > Len(pending) /\ flush'.at = "clear" /\ flush'.buffer = <<>>
      /\ disk' = Appended(disk, flush.buffer)
      /\ UNCHANGED <<offered, received, pending, caller, outer, main>>
      /\ flush \in FlushType /\ flush.buffer \in Seq(Events)
      /\ pending \in Seq(Events) /\ disk \in Seq(Events)
  BY DEF FlushClose, Single, ClientTypes, FlushType
<1>2. /\ Len(pending) \in Nat /\ DOMAIN pending = 1 .. Len(pending)
      /\ Len(flush.buffer) = Len(pending)
      /\ \A i \in DOMAIN pending : flush.buffer[i] = pending[i]
  BY <1>1 DEF Single, Copied, FlushType
<1>3. disk # <<>> => Last(disk) \in Events
  BY <1>1 DEF Last
<1>4. disk' = disk \o flush.buffer
  BY <1>1, <1>3, ClientAssumption DEF Appended
<1>5. /\ Len(disk) \in Nat /\ DOMAIN disk = 1 .. Len(disk)
      /\ DOMAIN disk' = 1 .. Len(disk) + Len(pending)
      /\ \A j \in 1 .. Len(disk) : disk'[j] = disk[j]
      /\ \A i \in 1 .. Len(pending) : disk'[Len(disk) + i] = flush.buffer[i]
  <2> DEFINE b == flush.buffer
  <2>0. b \in Seq(Events) /\ disk \in Seq(Events)
    BY <1>1
  <2>1. disk' = disk \o b /\ Len(b) = Len(pending)
    BY <1>2, <1>4
  <2> HIDE DEF b
  <2>2. /\ Len(disk) \in Nat /\ DOMAIN disk = 1 .. Len(disk)
        /\ DOMAIN (disk \o b) = 1 .. Len(disk) + Len(b)
        /\ \A j \in 1 .. Len(disk) : (disk \o b)[j] = disk[j]
        /\ \A i \in 1 .. Len(b) : (disk \o b)[Len(disk) + i] = b[i]
    BY <2>0
  <2> QED
    BY <2>1, <2>2 DEF b
<1>6. ASSUME NEW j \in Live'
      PROVE  \/ j \in Live /\ disk'[j] = disk[j]
             \/ \E i \in DOMAIN pending : j = Len(disk) + i /\ disk'[j] = pending[i]
  <2>1. j \in 1 .. Len(disk) + Len(pending)
    BY <1>5 DEF Live
  <2>2. CASE j <= Len(disk)
    BY <1>1, <1>5, <2>1, <2>2 DEF Live
  <2>3. CASE ~(j <= Len(disk))
    <3>1. j - Len(disk) \in 1 .. Len(pending) /\ j = Len(disk) + (j - Len(disk))
      BY <1>2, <1>5, <2>1, <2>3
    <3> QED
      BY <1>2, <1>5, <3>1
  <2> QED
    BY <2>2, <2>3
<1>7. \A i \in DOMAIN pending, j \in Live : pending[i] # disk[j]
  BY <1>1 DEF Single, OneCopy
<1>8. \A j \in Live : j \in Nat /\ j <= Len(disk)
  BY <1>5 DEF Live
<1>9. OneCopy'
  <2>1. Distinct(disk, Live)'
    <3> SUFFICES ASSUME NEW j \in Live', NEW k \in Live', disk'[j] = disk'[k] PROVE j = k
      BY DEF Distinct
    <3> QED
      BY <1>6, <1>7 DEF Single, OneCopy, Distinct
  <2> QED
    BY <1>1, <2>1 DEF Single, OneCopy, Distinct
<1>10. caller.at # "drain"
  BY <1>1 DEF Single, FlushAlone, Waiting
<1>11. CopiesUnsent'
  BY <1>1, <1>6, <1>10 DEF Single, CopiesUnsent, Unsent
<1>12. OnTheWay'
  BY <1>1, <1>6 DEF Single, OnTheWay, Unsent
<1> QED
  BY <1>1, <1>9, <1>11, <1>12 DEF Single, Beginning, FlushAlone, Waiting, Copied, DrainedOnce, AtMostOnce

LEMMA FlushClearOnce ==
    ASSUME Single, ClientTypes', FlushClear
    PROVE  Single'
<1>1. /\ flush.at = "clear" /\ pending' = <<>> /\ Return
      /\ UNCHANGED <<offered, received, caller, main, disk>>
      /\ flush \in FlushType /\ outer \in Seq(FlushType)
  BY DEF FlushClear, Single, ClientTypes
<1>2. caller.at # "drain" /\ DOMAIN pending' = {} /\ Len(pending') = 0
  BY <1>1 DEF Single, FlushAlone
<1>3. Live' = Live
  BY <1>1 DEF Live
<1>4. OneCopy' /\ CopiesUnsent' /\ OnTheWay'
  BY <1>1, <1>2, <1>3 DEF Single, OneCopy, Distinct, CopiesUnsent, OnTheWay, Unsent
<1>5. (flush' = NotFlushing /\ outer' = <<>>) \/ flush' = Fresh
  BY <1>1, Returned DEF Single, Waiting
<1>6. \A k \in DOMAIN outer' : outer'[k] = Fresh
  BY <1>1, Returned DEF Single, Waiting
<1>7. Waiting' /\ Copied'
  BY <1>2, <1>5, <1>6 DEF Waiting, Copied, NotFlushing, Fresh
<1>8. Beginning' /\ FlushAlone'
  BY <1>1, <1>2 DEF Single, Beginning, FlushAlone
<1> QED
  BY <1>1, <1>2, <1>4, <1>7, <1>8 DEF Single, DrainedOnce, AtMostOnce

(* The copies are where they were.                                          *)
LEMMA SameCopies ==
    ASSUME Single, ClientTypes',
           UNCHANGED <<offered, received, pending, caller, disk>>, Live' = Live,
           flush' = flush \/ (flush'.at = "lines" /\ flush'.next = 1 /\ flush'.buffer = <<>>
                              /\ flush.at # "clear"),
           Beginning', FlushAlone' /\ Waiting'
    PROVE  Single'
<1>1. pending \in Seq(Events) /\ Len(pending) \in Nat
  BY DEF Single, ClientTypes
<1>2. flush'.at # "clear" => flush.at # "clear"
  OBVIOUS
<1>3. Copied'
  BY <1>1 DEF Single, Copied
<1>4. OneCopy' /\ CopiesUnsent' /\ OnTheWay'
  BY <1>2 DEF Single, OneCopy, Distinct, CopiesUnsent, OnTheWay, Unsent
<1> QED
  BY <1>3, <1>4 DEF Single, DrainedOnce, AtMostOnce

LEMMA SigtermOnce ==
    ASSUME Single, ClientTypes', Sigterm, NoDouble'
    PROVE  Single'
<1>1. /\ UNCHANGED <<offered, received, pending, caller, main>>
      /\ main.at # "down" /\ StartFlush
  BY DEF Sigterm
<1>2. caller.at # "drain" /\ flush.at # "clear"
  BY DEF Sigterm, Blame, NoDouble
<1>3. PICK there \in 0 .. Len(flush.buffer), cut \in BOOLEAN :
          /\ cut => there < Len(flush.buffer)
          /\ Interrupted(there, cut)
          /\ flush.at # "clear" /\ ~(flush.next > 1)
  BY DEF Sigterm, Blame, NoDouble
<1>4. /\ disk' = disk
      /\ \A k \in DOMAIN outer' : outer'[k] = Fresh \/ \E l \in DOMAIN outer : outer'[k] = outer[l]
  BY <1>3, InterruptedFresh DEF Single
<1>5. flush'.at = "lines" /\ flush'.next = 1 /\ flush'.buffer = <<>>
  BY <1>1, FlushBegun
<1>6. Live' = Live
  BY <1>1, <1>4 DEF Live
<1>7. Beginning' /\ FlushAlone' /\ Waiting'
  BY <1>1, <1>2, <1>4, <1>5 DEF Single, Beginning, FlushAlone, Waiting
<1> QED
  BY <1>1, <1>2, <1>4, <1>5, <1>6, <1>7, SameCopies

LEMMA ExitOnce ==
    ASSUME Single, ClientTypes', Exit, NoDouble'
    PROVE  Single'
<1>1. /\ UNCHANGED <<offered, received, pending, caller, outer, disk>>
      /\ main.at = "up" /\ flush.at = "idle" /\ main'.at = "leaving"
  BY DEF Exit, Single, ClientTypes, MainType
<1>2. Live' = Live
  BY <1>1 DEF Live
<1>3. \/ flush' = flush
      \/ /\ flush'.at = "lines" /\ flush'.next = 1 /\ flush'.buffer = <<>>
         /\ pending # <<>> /\ caller.at # "drain"
  BY DEF Exit, StartFlush, NotFlushing, Blame, NoDouble
<1>4. Beginning' /\ FlushAlone' /\ Waiting'
  BY <1>1, <1>3 DEF Single, Beginning, FlushAlone, Waiting
<1> QED
  BY <1>1, <1>2, <1>3, <1>4, SameCopies

LEMMA StartOnce ==
    ASSUME Single, ClientTypes', Start
    PROVE  Single'
<1>1. /\ main.at = "down" /\ UNCHANGED <<offered, received, pending, caller, flush, outer, disk>>
      /\ main'.at \in {"up", "replay"} /\ main'.line = 1
      /\ disk \in Seq(Events)
  BY DEF Start, Single, ClientTypes
<1>2. \A j \in DOMAIN disk : j >= 1
  BY <1>1
<1>3. Live' = Live
  BY <1>1, <1>2 DEF Live
<1>4. Beginning' /\ FlushAlone' /\ Waiting'
  BY <1>1 DEF Single, Beginning, FlushAlone, Waiting
<1> QED
  BY <1>1, <1>3, <1>4, SameCopies

LEMMA ReplayLineOnce ==
    ASSUME Single, ClientTypes', ReplayLine, NoDouble'
    PROVE  Single'
<1>0. ~ReplayStops
  BY DEF ReplayStops, Blame, NoDouble
<1>1. /\ main.at = "replay" /\ flush.at = "idle" /\ caller.at = "idle"
      /\ UNCHANGED <<offered, received, caller, flush, outer, disk>>
      /\ main \in MainType /\ main.line \in Nat \ {0}
      /\ disk \in Seq(Events) /\ pending \in Seq(Events)
      /\ Len(disk) \in Nat /\ DOMAIN disk = 1 .. Len(disk)
  BY <1>0 DEF ReplayLine, Single, Beginning, ClientTypes, MainType
<1>2. CASE main.line > Len(disk)
  <2>1. main'.at = "remove" /\ pending' = pending
    BY <1>0, <1>1, <1>2 DEF ReplayLine, MainType
  <2>2. Live' = Live
    BY <1>1, <1>2, <2>1 DEF Live
  <2>3. Beginning' /\ FlushAlone' /\ Waiting'
    BY <1>1, <2>1 DEF Single, Beginning, FlushAlone, Waiting
  <2> QED
    BY <1>1, <2>1, <2>2, <2>3, SameCopies
<1>3. CASE ~(main.line > Len(disk))
  <2> DEFINE e == disk[main.line]
  <2>1. e \in Events /\ main.line \in Live
    BY <1>1, <1>3 DEF Live
  <2>2. /\ main'.at = "replay" /\ main'.line = main.line + 1
        /\ pending' = Append(pending, e)
    BY <1>0, <1>1, <1>3 DEF ReplayLine, MainType
  <2>3. Live' \subseteq Live \ {main.line}
    BY <1>1, <2>2 DEF Live
  <2>4. \A j \in Live : j # main.line => disk[j] # e
    BY <2>1 DEF Single, OneCopy, Distinct
  <2>5. \A i \in DOMAIN pending : pending[i] # e
    BY <1>1, <2>1 DEF Single, OneCopy
  <2> HIDE DEF e
  <2>6. \A i \in DOMAIN pending' :
            (i \in DOMAIN pending /\ pending'[i] = pending[i])
            \/ (i = Len(pending) + 1 /\ pending'[i] = e)
    BY <1>1, <2>1, <2>2
  <2>7. OneCopy'
    <3>1. Distinct(pending, DOMAIN pending)'
      BY <2>5, <2>6 DEF Single, OneCopy, Distinct
    <3>2. Distinct(disk, Live)'
      BY <1>1, <2>3 DEF Single, OneCopy, Distinct
    <3>3. \A i \in DOMAIN pending', j \in Live' : pending'[i] # disk'[j]
      BY <1>1, <2>3, <2>4, <2>6 DEF Single, OneCopy
    <3> QED
      BY <3>1, <3>2, <3>3 DEF OneCopy
  <2>8. CopiesUnsent'
    <3>1. Unsent(e)
      BY <2>1 DEF Single, CopiesUnsent, e
    <3> QED
      BY <1>1, <2>3, <2>6, <3>1 DEF Single, CopiesUnsent, Unsent
  <2>9. Beginning' /\ FlushAlone' /\ Waiting' /\ Copied' /\ OnTheWay' /\ DrainedOnce' /\ AtMostOnce'
    BY <1>1, <2>2 DEF Single, Beginning, FlushAlone, Waiting, Copied, OnTheWay, DrainedOnce, AtMostOnce
  <2> QED
    BY <2>7, <2>8, <2>9 DEF Single
<1> QED
  BY <1>2, <1>3

LEMMA ReplayRemoveOnce ==
    ASSUME Single, ClientTypes', ReplayRemove, NoDouble'
    PROVE  Single'
<1>0. ~ReplayStops
  BY DEF ReplayStops, Blame, NoDouble
<1>1. /\ main.at = "remove" /\ flush.at = "idle" /\ caller.at = "idle" /\ main'.at = "up"
      /\ disk' = <<>>
      /\ UNCHANGED <<offered, received, pending, caller, flush, outer>>
  BY <1>0 DEF ReplayRemove, Single, Beginning, ClientTypes, MainType
<1>2. Live' = {}
  BY <1>1 DEF Live
<1>3. OneCopy' /\ CopiesUnsent'
  BY <1>1, <1>2 DEF Single, OneCopy, Distinct, CopiesUnsent, Unsent
<1> QED
  BY <1>1, <1>3 DEF Single, Beginning, FlushAlone, Waiting, Copied, OnTheWay, DrainedOnce, AtMostOnce

LEMMA ExitedOnce ==
    ASSUME Single, ClientTypes', Exited
    PROVE  Single'
<1>1. /\ main.at = "leaving" /\ flush.at = "idle" /\ main'.at = "down" /\ pending' = <<>>
      /\ caller'.at = "idle" /\ flush' = NotFlushing /\ outer' = <<>>
      /\ UNCHANGED <<offered, received, disk>>
  BY NoCall DEF Exited, Gone
<1>2. Live' = Live /\ DOMAIN pending' = {}
  BY <1>1 DEF Live
<1>3. OneCopy' /\ CopiesUnsent'
  BY <1>1, <1>2 DEF Single, OneCopy, Distinct, CopiesUnsent, Unsent
<1> QED
  BY <1>1, <1>3 DEF Single, Beginning, FlushAlone, Waiting, Copied, OnTheWay, DrainedOnce,
     AtMostOnce, NotFlushing
-----------------------------------------------------------------------------
LEMMA NextOnce == OnceInv /\ [Next]_vars => OnceInv'
<1> SUFFICES ASSUME OnceInv, [Next]_vars, NoDouble' PROVE Single'
  BY DEF OnceInv
<1>1. Single
  BY NoDoubleBefore DEF OnceInv
<1>2. ClientTypes'
  BY <1>1, TypesStep DEF Single, OnTheWay
<1>3. CASE UNCHANGED vars \/ Close
  <2>1. UNCHANGED <<offered, received, pending, caller, flush, outer, main, disk>>
    BY <1>3 DEF vars, process, Close
  <2>2. Live' = Live
    BY <2>1 DEF Live
  <2>3. Beginning' /\ FlushAlone' /\ Waiting'
    BY <1>1, <2>1 DEF Single, Beginning, FlushAlone, Waiting
  <2> QED
    BY <1>1, <1>2, <2>1, <2>2, <2>3, SameCopies
<1>4. CASE \E e \in Events : Write(e)
  BY <1>1, <1>2, <1>4, WriteOnce
<1>5. CASE CallerStep
  BY <1>1, <1>2, <1>5, SendOkOnce, SendFailsOnce, DrainEndOnce, DrainTableOnce DEF CallerStep
<1>6. CASE FlushStep
  <2>1. ~FlushFails
    BY DEF FlushFails, Blame, NoDouble
  <2> QED
    BY <1>1, <1>2, <1>6, <2>1, FlushLineOnce, FlushCloseOnce, FlushClearOnce DEF FlushStep
<1>7. CASE MainStep
  BY <1>1, <1>2, <1>7, StartOnce, ReplayLineOnce, ReplayRemoveOnce, ExitedOnce DEF MainStep
<1>8. CASE Sigterm \/ Exit
  BY <1>1, <1>2, <1>8, SigtermOnce, ExitOnce
<1>9. ~Crash
  BY DEF Crash, Blame, NoDouble
<1> QED
  BY <1>3, <1>4, <1>5, <1>6, <1>7, <1>8, <1>9 DEF Next

(* The server gets an event once, whatever is retried, parked, flushed and  *)
(* replayed, and however often the process ends and starts again, unless an *)
(* answer was lost, a drain failed for one table and not for another, a     *)
(* flush and the writer met, a SIGTERM interrupted a flush that had lines in *)
(* hand, the file was torn, or it was kept after its replay (_write_events,  *)
(* _sigterm_dispatcher, _flush_queue_to_disk, _replay_flushed_events).       *)
THEOREM EventsArriveOnce == Spec => []DuplicateNeedsMishap
<1>1. OnceInv => DuplicateNeedsMishap
  BY DEF OnceInv, NoDouble, DuplicateNeedsMishap, Single, AtMostOnce
<1> QED
  BY <1>1, InitOnce, NextOnce, PTL DEF Spec
==============================================================================
