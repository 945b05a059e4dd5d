--------------------------- MODULE VideoQueueProofs ---------------------------
(***************************************************************************)
(* Theorems about VideoQueue, for every capacity and every bound.          *)
(***************************************************************************)
EXTENDS MCVideoQueue, FiniteSetTheorems, SequenceTheorems, TLAPS

\* What pop() leaves: each entry moves one place to the front.
LEMMA TailFacts ==
    ASSUME NEW S, NEW s \in Seq(S), s # <<>>
    PROVE  /\ Tail(s) \in Seq(S)
           /\ Head(s) \in S
           /\ Head(s) = s[1]
           /\ Len(s) \in Nat \ {0}
           /\ Len(Tail(s)) = Len(s) - 1
           /\ \A i \in 1 .. Len(Tail(s)) : i + 1 \in 1 .. Len(s) /\ Tail(s)[i] = s[i + 1]
OBVIOUS

\* What push() leaves: the entries before keep their places.
LEMMA LastOrBefore ==
    ASSUME NEW n \in Nat, NEW m, m = n + 1
    PROVE  \A i \in 1 .. m : i \in 1 .. n \/ i = n + 1
OBVIOUS

LEMMA AppendFacts ==
    ASSUME NEW S, NEW s \in Seq(S), NEW e \in S
    PROVE  /\ Append(s, e) \in Seq(S)
           /\ Append(s, e) # <<>>
           /\ Len(s) \in Nat
           /\ Len(Append(s, e)) = Len(s) + 1
           /\ Append(s, e)[Len(s) + 1] = e
           /\ \A i \in 1 .. Len(s) : Append(s, e)[i] = s[i]
           /\ s # <<>> => s[1] = Head(s) /\ Head(Append(s, e)) = Head(s)
<1>1. /\ Append(s, e) \in Seq(S)
      /\ Len(s) \in Nat
      /\ Len(Append(s, e)) = Len(s) + 1
      /\ Append(s, e)[Len(s) + 1] = e
      /\ \A i \in 1 .. Len(s) : Append(s, e)[i] = s[i]
    BY AppendProperties, LenProperties
<1>2. Append(s, e) # <<>>
    BY <1>1, EmptySeq
<1>3. ASSUME s # <<>> PROVE s[1] = Head(s) /\ Head(Append(s, e)) = Head(s)
    <2>1. 1 \in 1 .. Len(s)
        BY <1>3, <1>1, EmptySeq
    <2>2. Head(s) = s[1] /\ Head(Append(s, e)) = Append(s, e)[1]
        BY <1>3, <1>1, <1>2
    <2> QED
        BY <2>1, <2>2, <1>1
<1> QED
    BY <1>1, <1>2, <1>3

\* The marks and numbers an entry carries are in range.
LEMMA NoEntryType == NoEntry \in Entry
BY BoundsAssumption DEF NoEntry, Entry, SeqNo, Mark, Place, Name
-------------------------------------------------------------------------------
(* Types                                                                   *)

LEMMA InitType == Init => TypeOK
<1> SUFFICES ASSUME Init PROVE TypeOK
    OBVIOUS
<1>1. /\ queue \in Seq(Entry) /\ audio \in Seq(1 .. MaxMark)
      /\ delivered \in Seq(Entry) /\ pictures \in Seq(Entry)
    BY EmptySeq DEF Init
<1>2. adding \in [step : AddStep, frame : Entry] /\ taking \in [step : TakeStep, entry : Entry]
    BY NoEntryType DEF Init, AddStep, TakeStep
<1>3. files \in [Second -> Entry] /\ spilled \in [Second -> SUBSET SeqNo] /\ jpeg \in Entry
    BY NoEntryType DEF Init
<1> QED
    BY <1>1, <1>2, <1>3, BoundsAssumption DEF Init, TypeOK, Mark, SeqNo, StartStep, MarkStep

LEMMA StartType == TypeOK /\ StartThread => TypeOK'
<1> SUFFICES ASSUME TypeOK, StartThread PROVE TypeOK'
    OBVIOUS
<1> USE BoundsAssumption DEF TypeOK, adders, takers, disk, starters, marks, capture
<1>1. CASE StartCall
    BY <1>1 DEF StartCall, StartStep, Mark
<1>2. CASE ClearOne
    <2>1. Tail(queue) \in Seq(Entry) /\ Head(queue) \in Entry
        BY <1>2, TailFacts DEF ClearOne
    <2> QED
        BY <1>2, <2>1 DEF ClearOne, Lose, Entry
<1>3. CASE ClearDone
    BY <1>3 DEF ClearDone, StartStep
<1>4. CASE ResetMarks
    BY <1>4 DEF ResetMarks, StartStep, Mark
<1> QED
    BY <1>1, <1>2, <1>3, <1>4 DEF StartThread

LEMMA AudioType == TypeOK /\ AudioThread => TypeOK'
<1> SUFFICES ASSUME TypeOK, AudioThread PROVE TypeOK'
    OBVIOUS
<1> USE BoundsAssumption DEF TypeOK, adders, takers, disk, starters, marks, capture
<1>1. CASE CapturePacket
    <2>1. index + 1 \in 1 .. MaxMark
        BY <1>1 DEF CapturePacket
    <2>2. Append(audio, index + 1) \in Seq(1 .. MaxMark)
        BY <2>1, AppendFacts
    <2> QED
        BY <1>1, <2>1, <2>2 DEF CapturePacket, MarkStep
<1>2. CASE SetAudioMark
    BY <1>2 DEF SetAudioMark, Mark, MarkStep
<1> QED
    BY <1>1, <1>2 DEF AudioThread

\* What the stamp changes of the bitmap being added.
LEMMA StampIs ==
    ASSUME adding.frame \in Entry, NEW place, NEW n
    PROVE  Stamp(place, n) =
               [seq |-> adding.frame.seq, tag |-> audio_mark, at |-> place, name |-> n]
<1>1. PICK e \in [seq : SeqNo, tag : Mark, at : Place, name : Name] : e = adding.frame
    BY DEF Entry
<1>2. PICK f : f = [e EXCEPT !.tag = audio_mark, !.at = place, !.name = n]
    OBVIOUS
<1>3. DOMAIN f = {"seq", "tag", "at", "name"}
    BY <1>1, <1>2
<1>4. f.seq = e.seq /\ f.tag = audio_mark /\ f.at = place /\ f.name = n
    BY <1>1, <1>2
<1>5. f = [x \in {"seq", "tag", "at", "name"} |-> f[x]]
    BY <1>1, <1>2, <1>3
<1>6. f = [seq |-> e.seq, tag |-> audio_mark, at |-> place, name |-> n]
    BY <1>3, <1>4, <1>5
<1> QED
    BY <1>1, <1>2, <1>6 DEF Stamp

LEMMA StampType ==
    ASSUME TypeOK
    PROVE  /\ Stamp("memory", 0) \in Entry
           /\ \A n \in Second : Stamp("file", n) \in Entry
<1>1. adding.frame \in Entry /\ adding.frame.seq \in SeqNo /\ audio_mark \in Mark
    BY DEF TypeOK, Entry
<1>2. 0 \in Name /\ (\A n \in Second : n \in Name)
    BY BoundsAssumption DEF Name, Second
<1> QED
    BY <1>1, <1>2, StampIs DEF Entry, Place

LEMMA WriteFileType ==
    ASSUME TypeOK, NEW n \in Second, WriteFile(n)
    PROVE  files' \in [Second -> Entry] /\ spilled' \in [Second -> SUBSET SeqNo]
BY StampType DEF TypeOK, WriteFile, Entry

LEMMA CaptureType == TypeOK /\ CaptureThread => TypeOK'
<1> SUFFICES ASSUME TypeOK, CaptureThread PROVE TypeOK'
    OBVIOUS
<1> USE BoundsAssumption, NoEntryType DEF TypeOK, takers, disk, starters, marks, capture
<1>1. CASE AddBitmap
    <2>1. captured + 1 \in SeqNo
        BY <1>1 DEF AddBitmap, SeqNo
    <2>2. [NoEntry EXCEPT !.seq = captured + 1] \in Entry
        BY <2>1 DEF NoEntry, Entry, Mark, Place
    <2> QED
        BY <1>1, <2>1, <2>2 DEF AddBitmap, AddStep
<1>2. CASE AddBitmapLowMemory
    BY <1>2 DEF AddBitmapLowMemory, SeqNo, Lose
<1>3. CASE KeepInMemory
    BY <1>3, StampType DEF KeepInMemory, AddStep
<1>4. CASE SpillToFile
    <2>1. PICK n \in Second : WriteFile(n) /\ adding' = [step |-> "push", frame |-> Stamp("file", n)]
        BY <1>4 DEF SpillToFile
    <2> QED
        BY <1>4, <2>1, StampType, WriteFileType DEF SpillToFile, AddStep, Entry
<1>5. CASE SpillFails
    <2>1. files' \in [Second -> Entry] /\ spilled' \in [Second -> SUBSET SeqNo]
        BY <1>5, WriteFileType DEF SpillFails
    <2> QED
        BY <1>5, <2>1 DEF SpillFails, Lose, AddStep, Entry
<1>6. CASE PushEntry
    <2>1. Append(queue, adding.frame) \in Seq(Entry)
        BY AppendFacts
    <2> QED
        BY <1>6, <2>1 DEF PushEntry, AddStep
<1> QED
    BY <1>1, <1>2, <1>3, <1>4, <1>5, <1>6 DEF CaptureThread

LEMMA EncoderType == TypeOK /\ EncoderThread => TypeOK'
<1> SUFFICES ASSUME TypeOK, EncoderThread PROVE TypeOK'
    OBVIOUS
<1> USE NoEntryType DEF TypeOK, adders, disk, starters, marks, capture
<1>1. CASE SetAudioSync
    <2>1. Tail(audio) \in Seq(1 .. MaxMark) /\ Head(audio) \in 1 .. MaxMark
        BY <1>1, TailFacts DEF SetAudioSync
    <2> QED
        BY <1>1, <2>1, BoundsAssumption DEF SetAudioSync, Mark, takers
<1>2. CASE PeekBitmap
    BY <1>2 DEF PeekBitmap, TakeStep
<1>3. CASE PopNothing
    BY <1>3 DEF PopNothing, TakeStep
<1>4. CASE PopFromMemory
    <2>1. Tail(queue) \in Seq(Entry) /\ Head(queue) \in Entry
        BY <1>4, TailFacts DEF PopFromMemory
    <2>2. Append(delivered, Head(queue)) \in Seq(Entry) /\ Append(pictures, Head(queue)) \in Seq(Entry)
        BY <2>1, AppendFacts
    <2> QED
        BY <1>4, <2>1, <2>2 DEF PopFromMemory, TakeStep
<1>5. CASE PopFromFile
    <2>1. Tail(queue) \in Seq(Entry) /\ Head(queue) \in Entry
        BY <1>5, TailFacts DEF PopFromFile
    <2> QED
        BY <1>5, <2>1 DEF PopFromFile, TakeStep
<1>6. CASE ReturnBitmap
    <2>1. Append(delivered, taking.entry) \in Seq(Entry) /\ Append(pictures, jpeg) \in Seq(Entry)
        BY AppendFacts
    <2> QED
        BY <1>6, <2>1 DEF ReturnBitmap, RemoveFile, TakeStep
<1>7. CASE ReadFileFails
    <2>1. files' \in [Second -> Entry]
        BY <1>7 DEF ReadFileFails, RemoveFile
    <2> QED
        BY <1>7, <2>1 DEF ReadFileFails, Lose, TakeStep, Entry
<1>8. CASE ReadFile
    <2>1. taking.entry.name \in Second
        BY <1>8 DEF ReadFile, Entry
    <2> QED
        BY <1>8, <2>1 DEF ReadFile
<1> QED
    BY <1>1, <1>2, <1>3, <1>4, <1>5, <1>6, <1>7, <1>8 DEF EncoderThread

LEMMA StutterType == TypeOK /\ UNCHANGED vars => TypeOK'
BY DEF TypeOK, vars, takers, disk

\* Every thread keeps the types, whatever the others are in the middle of.
THEOREM TypeCorrect == Spec => []TypeOK
<1>1. TypeOK /\ [Next]_vars => TypeOK'
    BY StartType, AudioType, CaptureType, EncoderType, StutterType DEF Next
<1> QED
    BY InitType, <1>1, PTL DEF Spec
-------------------------------------------------------------------------------
(* The memory bound                                                        *)

\* An entry kept in memory stands among the first MAX_BITMAP_COUNT + 1: it was
\* pushed when the queue was short, and pop() only moves it forward.
MemoryInFront ==
    \A i \in 1 .. Len(queue) : queue[i].at = "memory" => i <= MAX_BITMAP_COUNT + 1

\* What the capture thread found out about the size still holds when it
\* pushes: it is the only thread that makes the queue longer.
RoomHolds ==
    (adding.step = "keep" \/ (adding.step = "push" /\ adding.frame.at = "memory"))
        => HasRoom

MemoryInv == TypeOK /\ MemoryInFront /\ RoomHolds

\* A step that pops.
LEMMA PopKeepsMemoryInv ==
    ASSUME MemoryInv, TypeOK', queue # <<>>, queue' = Tail(queue), UNCHANGED adding
    PROVE  MemoryInv'
<1>1. /\ Len(queue) \in Nat
      /\ Len(Tail(queue)) = Len(queue) - 1
      /\ \A i \in 1 .. Len(Tail(queue)) :
            i + 1 \in 1 .. Len(queue) /\ Tail(queue)[i] = queue[i + 1]
    BY TailFacts DEF MemoryInv, TypeOK
<1>2. MemoryInFront'
    BY <1>1, CapacityAssumption DEF MemoryInv, MemoryInFront
<1>3. RoomHolds'
    BY <1>1, CapacityAssumption DEF MemoryInv, RoomHolds, HasRoom
<1> QED
    BY <1>2, <1>3 DEF MemoryInv

\* A step of another thread that leaves the queue alone.
LEMMA OthersKeepMemoryInv ==
    ASSUME MemoryInv, TypeOK', UNCHANGED <<queue, adding>>
    PROVE  MemoryInv'
BY DEF MemoryInv, MemoryInFront, RoomHolds, HasRoom

LEMMA CaptureKeepsMemoryInv ==
    ASSUME MemoryInv, TypeOK', CaptureThread
    PROVE  MemoryInv'
<1> USE DEF MemoryInv
<1>1. CASE AddBitmap
    BY <1>1 DEF AddBitmap, MemoryInFront, RoomHolds, HasRoom, TypeOK
<1>2. CASE AddBitmapLowMemory
    BY <1>2, OthersKeepMemoryInv DEF AddBitmapLowMemory
<1>3. CASE KeepInMemory
    BY <1>3 DEF KeepInMemory, MemoryInFront, RoomHolds, HasRoom, TypeOK
<1>4. CASE SpillToFile
    <2>1. adding'.frame.at = "file" /\ adding'.step = "push"
        BY <1>4, StampIs DEF SpillToFile, TypeOK
    <2> QED
        BY <1>4, <2>1 DEF SpillToFile, MemoryInFront, RoomHolds
<1>5. CASE SpillFails
    BY <1>5 DEF SpillFails, MemoryInFront, RoomHolds
<1>6. CASE PushEntry
    <2>1. /\ Len(queue) \in Nat
          /\ Len(queue') = Len(queue) + 1
          /\ queue'[Len(queue) + 1] = adding.frame
          /\ \A i \in 1 .. Len(queue) : queue'[i] = queue[i]
        BY <1>6, AppendFacts DEF PushEntry, TypeOK
    <2>2. adding.frame.at = "memory" => Len(queue) + 1 <= MAX_BITMAP_COUNT + 1
        BY <1>6, <2>1, CapacityAssumption DEF PushEntry, RoomHolds, HasRoom
    <2>3. MemoryInFront'
        BY <2>1, <2>2, CapacityAssumption DEF MemoryInFront
    <2>4. RoomHolds'
        BY <1>6 DEF PushEntry, RoomHolds
    <2> QED
        BY <2>3, <2>4
<1> QED
    BY <1>1, <1>2, <1>3, <1>4, <1>5, <1>6 DEF CaptureThread

LEMMA NextKeepsMemoryInv ==
    ASSUME MemoryInv, TypeOK', [Next]_vars
    PROVE  MemoryInv'
<1>1. CASE StartThread
    BY <1>1, PopKeepsMemoryInv, OthersKeepMemoryInv
       DEF StartThread, StartCall, ClearOne, ClearDone, ResetMarks, adders
<1>2. CASE AudioThread
    BY <1>2, OthersKeepMemoryInv DEF AudioThread, CapturePacket, SetAudioMark, adders
<1>3. CASE CaptureThread
    BY <1>3, CaptureKeepsMemoryInv
<1>4. CASE EncoderThread
    BY <1>4, PopKeepsMemoryInv, OthersKeepMemoryInv
       DEF EncoderThread, SetAudioSync, PeekBitmap, PopNothing, PopFromMemory,
           PopFromFile, ReadFile, ReturnBitmap, ReadFileFails, adders
<1>5. CASE UNCHANGED vars
    BY <1>5, OthersKeepMemoryInv DEF vars
<1> QED
    BY <1>1, <1>2, <1>3, <1>4, <1>5 DEF Next

LEMMA MemoryInvBounds == MemoryInv => MemoryBound
<1> SUFFICES ASSUME MemoryInv PROVE MemoryBound
    OBVIOUS
<1>1. InMemory \subseteq 1 .. MAX_BITMAP_COUNT + 1
    BY LenProperties, CapacityAssumption
       DEF MemoryInv, MemoryInFront, InMemory, TypeOK
<1>2. /\ IsFiniteSet(1 .. MAX_BITMAP_COUNT + 1)
      /\ Cardinality(1 .. MAX_BITMAP_COUNT + 1) = MAX_BITMAP_COUNT + 1
    BY FS_Interval, CapacityAssumption
<1> QED
    BY <1>1, <1>2, FS_Subset DEF MemoryBound

\* For every capacity, the memory the queue can hold on to is bounded, although
\* addBitmap tests the size and pushes in two separately locked steps.
THEOREM MemoryBounded == Spec => []MemoryBound
<1>1. Init => MemoryInv
    BY InitType DEF Init, MemoryInv, MemoryInFront, RoomHolds
<1>2. MemoryInv /\ TypeOK' /\ [Next]_vars => MemoryInv'
    BY NextKeepsMemoryInv
<1> QED
    BY <1>1, <1>2, TypeCorrect, MemoryInvBounds, PTL DEF Spec
-------------------------------------------------------------------------------
(* The order of delivery                                                   *)

Ascending(entries) ==
    \A i, j \in 1 .. Len(entries) : i < j => entries[i].seq < entries[j].seq

AllBefore(entries, n) == \A i \in 1 .. Len(entries) : entries[i].seq < n

\* Whatever is delivered, being read or queued is older than n.
PipelineBefore(n) ==
    /\ AllBefore(delivered, n)
    /\ taking.step = "read" => taking.entry.seq < n
    /\ AllBefore(queue, n)

\* From the oldest delivered bitmap to the youngest queued one, and on to the
\* bitmap the capture thread holds, the numbers ascend.
OrderInv ==
    /\ TypeOK
    /\ Ascending(delivered)
    /\ Ascending(queue)
    /\ \A j \in 1 .. Len(queue) : AllBefore(delivered, queue[j].seq)
    /\ taking.step = "read" =>
          /\ AllBefore(delivered, taking.entry.seq)
          /\ \A j \in 1 .. Len(queue) : taking.entry.seq < queue[j].seq
    /\ adding.step = "idle" => PipelineBefore(captured + 1)
    /\ adding.step # "idle" => adding.frame.seq <= captured /\ PipelineBefore(adding.frame.seq)

LEMMA PushAscends ==
    ASSUME NEW s \in Seq(Entry), NEW e \in Entry, Ascending(s), AllBefore(s, e.seq)
    PROVE  Ascending(Append(s, e))
<1>1. /\ Len(s) \in Nat
      /\ Len(Append(s, e)) = Len(s) + 1
      /\ Append(s, e)[Len(s) + 1] = e
      /\ \A i \in 1 .. Len(s) : Append(s, e)[i] = s[i]
    BY AppendFacts
<1> QED
    BY <1>1 DEF Ascending, AllBefore

LEMMA PushBefore ==
    ASSUME NEW s \in Seq(Entry), NEW e \in Entry, NEW n, AllBefore(s, n), e.seq < n
    PROVE  AllBefore(Append(s, e), n)
BY AppendFacts DEF AllBefore

LEMMA SeqIsNat == \A e \in Entry : e.seq \in Nat
BY BoundsAssumption DEF Entry, SeqNo

LEMMA StampKeepsSeq ==
    ASSUME adding.frame \in Entry, NEW place, NEW n
    PROVE  Stamp(place, n).seq = adding.frame.seq
BY StampIs

LEMMA BeforeLater ==
    ASSUME NEW s \in Seq(Entry), NEW m \in Nat, NEW n \in Nat, m <= n, AllBefore(s, m)
    PROVE  AllBefore(s, n)
<1>1. \A i \in 1 .. Len(s) : s[i].seq \in Nat
    BY ElementOfSeq, SeqIsNat
<1> QED
    BY <1>1 DEF AllBefore

LEMMA TailAscends ==
    ASSUME NEW s \in Seq(Entry), s # <<>>, Ascending(s)
    PROVE  /\ Ascending(Tail(s))
           /\ \A j \in 1 .. Len(Tail(s)) : Head(s).seq < Tail(s)[j].seq
<1>1. /\ Head(s) = s[1]
      /\ Len(s) \in Nat \ {0}
      /\ Len(Tail(s)) = Len(s) - 1
      /\ \A i \in 1 .. Len(Tail(s)) : i + 1 \in 1 .. Len(s) /\ Tail(s)[i] = s[i + 1]
    BY TailFacts
<1> QED
    BY <1>1 DEF Ascending

\* The entries that pop() leaves inherit what held of all.
LEMMA TailInherits ==
    ASSUME NEW s \in Seq(Entry), s # <<>>
    PROVE  /\ \A j \in 1 .. Len(Tail(s)) : \E k \in 1 .. Len(s) : Tail(s)[j] = s[k]
           /\ \E k \in 1 .. Len(s) : Head(s) = s[k]
BY TailFacts
-------------------------------------------------------------------------------
LEMMA OthersKeepOrderInv ==
    ASSUME OrderInv, TypeOK', UNCHANGED <<queue, adding, captured, taking, delivered>>
    PROVE  OrderInv'
BY DEF OrderInv, Ascending, AllBefore, PipelineBefore

LEMMA StartKeepsOrderInv ==
    ASSUME OrderInv, TypeOK', StartThread
    PROVE  OrderInv'
<1>1. CASE ClearOne
    <2>1. queue # <<>> /\ queue' = Tail(queue) /\ UNCHANGED <<adding, captured, taking, delivered>>
        BY <1>1 DEF ClearOne, adders, takers
    <2>2. Ascending(queue')
        BY <2>1, TailAscends DEF OrderInv, TypeOK
    <2>3. \A j \in 1 .. Len(queue') : \E k \in 1 .. Len(queue) : queue'[j] = queue[k]
        BY <2>1, TailInherits DEF OrderInv, TypeOK
    <2> QED
        BY <2>1, <2>2, <2>3 DEF OrderInv, Ascending, AllBefore, PipelineBefore
<1>2. CASE ~ClearOne
    BY <1>2, OthersKeepOrderInv
       DEF StartThread, StartCall, ClearDone, ResetMarks, adders, takers
<1> QED
    BY <1>1, <1>2

LEMMA CaptureKeepsOrderInv ==
    ASSUME OrderInv, TypeOK', CaptureThread
    PROVE  OrderInv'
<1>0. /\ captured \in Nat
      /\ adding.frame.seq \in Nat
      /\ queue \in Seq(Entry) /\ delivered \in Seq(Entry)
      /\ taking.entry.seq \in Nat
    <2>1. adding.frame \in Entry /\ taking.entry \in Entry
        BY DEF OrderInv, TypeOK
    <2> QED
        BY <2>1, SeqIsNat, BoundsAssumption DEF OrderInv, TypeOK, SeqNo
<1>1. CASE AddBitmap
    <2>1. /\ adding'.frame.seq = captured + 1
          /\ adding'.step # "idle"
          /\ captured' = captured + 1
          /\ adding.step = "idle"
          /\ UNCHANGED <<queue, taking, delivered>>
        BY <1>1 DEF AddBitmap, NoEntry, takers
    <2> QED
        BY <2>1, <1>0 DEF OrderInv, Ascending, AllBefore, PipelineBefore
<1>2. CASE AddBitmapLowMemory
    <2>1. /\ captured' = captured + 1
          /\ adding.step = "idle"
          /\ UNCHANGED <<queue, adding, taking, delivered>>
        BY <1>2 DEF AddBitmapLowMemory, takers
    <2>2. PipelineBefore(captured + 1)
        BY <2>1 DEF OrderInv
    <2>3. AllBefore(delivered, captured + 2) /\ AllBefore(queue, captured + 2)
        BY <2>2, <1>0, BeforeLater DEF PipelineBefore
    <2>4. PipelineBefore(captured + 2)
        BY <2>2, <2>3, <1>0 DEF PipelineBefore
    <2>5. PipelineBefore(captured + 1)' 
        BY <2>1, <2>4, <1>0 DEF PipelineBefore, AllBefore
    <2> QED
        BY <2>1, <2>5 DEF OrderInv, Ascending, AllBefore
<1>3. CASE KeepInMemory \/ SpillToFile
    <2>1. /\ adding'.frame.seq = adding.frame.seq
          /\ adding.step # "idle" /\ adding'.step # "idle"
          /\ UNCHANGED <<queue, captured, taking, delivered>>
        <3>1. adding.frame \in Entry
            BY DEF OrderInv, TypeOK
        <3> QED
            BY <1>3, <3>1, StampKeepsSeq DEF KeepInMemory, SpillToFile, takers
    <2> QED
        BY <2>1 DEF OrderInv, Ascending, AllBefore, PipelineBefore
<1>4. CASE SpillFails
    <2>1. /\ adding.step # "idle" /\ adding'.step = "idle"
          /\ UNCHANGED <<queue, captured, taking, delivered>>
        BY <1>4 DEF SpillFails, takers
    <2>2. AllBefore(delivered, captured + 1) /\ AllBefore(queue, captured + 1)
        BY <2>1, <1>0, BeforeLater DEF OrderInv, PipelineBefore
    <2>3. PipelineBefore(captured + 1)
        BY <2>1, <2>2, <1>0 DEF OrderInv, PipelineBefore
    <2> QED
        BY <2>1, <2>3 DEF OrderInv, Ascending, AllBefore, PipelineBefore
<1>5. CASE PushEntry
    <2>1. /\ adding.step # "idle" /\ adding'.step = "idle"
          /\ queue' = Append(queue, adding.frame)
          /\ adding.frame \in Entry
          /\ UNCHANGED <<captured, taking, delivered>>
        BY <1>5 DEF PushEntry, takers, OrderInv, TypeOK
    <2>2. PipelineBefore(adding.frame.seq) /\ adding.frame.seq <= captured
        BY <2>1 DEF OrderInv
    <2>3. Ascending(queue')
        BY <2>1, <2>2, <1>0, PushAscends DEF OrderInv, PipelineBefore
    <2>4. \A j \in 1 .. Len(queue') :
             queue'[j] = adding.frame \/ \E k \in 1 .. Len(queue) : queue'[j] = queue[k]
        BY <2>1, <1>0, AppendFacts
    <2>5. \A j \in 1 .. Len(queue') : AllBefore(delivered, queue'[j].seq)
        BY <2>2, <2>4 DEF OrderInv, PipelineBefore
    <2>6. taking.step = "read" => \A j \in 1 .. Len(queue') : taking.entry.seq < queue'[j].seq
        BY <2>2, <2>4 DEF OrderInv, PipelineBefore
    <2>7. AllBefore(delivered, captured + 1) /\ AllBefore(queue, captured + 1)
        BY <2>2, <1>0, BeforeLater DEF PipelineBefore
    <2>8. AllBefore(queue', captured + 1)
        BY <2>1, <2>2, <2>7, <1>0, PushBefore
    <2>9. PipelineBefore(captured + 1)'
        <3>1. taking.step = "read" => taking.entry.seq < captured + 1
            <4>1. taking.entry.seq \in Nat /\ adding.frame.seq \in Nat /\ captured \in Nat
                BY <2>1, <1>0, SeqIsNat DEF OrderInv, TypeOK, SeqNo
            <4> QED
                BY <2>2, <4>1 DEF PipelineBefore
        <3>2. AllBefore(delivered', captured' + 1) /\ AllBefore(queue', captured' + 1)
            BY <2>1, <2>7, <2>8
        <3> QED
            BY <2>1, <3>1, <3>2 DEF PipelineBefore, AllBefore
    <2> QED
        BY <2>1, <2>3, <2>5, <2>6, <2>9 DEF OrderInv, Ascending, AllBefore
<1> QED
    BY <1>1, <1>2, <1>3, <1>4, <1>5 DEF CaptureThread

LEMMA EncoderKeepsOrderInv ==
    ASSUME OrderInv, TypeOK', EncoderThread
    PROVE  OrderInv'
<1>0. queue \in Seq(Entry) /\ delivered \in Seq(Entry) /\ taking.entry \in Entry
    BY DEF OrderInv, TypeOK
<1>1. CASE SetAudioSync \/ ReadFile
    BY <1>1, OthersKeepOrderInv DEF SetAudioSync, ReadFile, adders, takers
<1>2. CASE PeekBitmap \/ PopNothing \/ ReadFileFails
    <2>1. /\ taking'.step # "read"
          /\ UNCHANGED <<queue, adding, captured, delivered>>
        BY <1>2 DEF PeekBitmap, PopNothing, ReadFileFails, adders, OrderInv, TypeOK
    <2> QED
        BY <2>1 DEF OrderInv, Ascending, AllBefore, PipelineBefore
<1>3. CASE PopFromMemory
    <2>1. /\ queue # <<>> /\ queue' = Tail(queue)
          /\ delivered' = Append(delivered, Head(queue))
          /\ taking'.step # "read"
          /\ UNCHANGED <<adding, captured>>
        BY <1>3 DEF PopFromMemory, adders
    <2>2. Head(queue) \in Entry
        BY <2>1, <1>0, TailFacts
    <2>3. /\ Ascending(queue')
          /\ \A j \in 1 .. Len(queue') : Head(queue).seq < queue'[j].seq
        BY <2>1, <1>0, TailAscends DEF OrderInv
    <2>4. /\ \A j \in 1 .. Len(queue') : \E k \in 1 .. Len(queue) : queue'[j] = queue[k]
          /\ \E k \in 1 .. Len(queue) : Head(queue) = queue[k]
        BY <2>1, <1>0, TailInherits
    <2>5. AllBefore(delivered, Head(queue).seq)
        BY <2>4 DEF OrderInv
    <2>6. Ascending(delivered')
        BY <2>1, <2>2, <2>5, <1>0, PushAscends DEF OrderInv
    <2>7. \A j \in 1 .. Len(queue') : AllBefore(delivered, queue'[j].seq)
        BY <2>4 DEF OrderInv
    <2>8. \A j \in 1 .. Len(queue') : AllBefore(delivered', queue'[j].seq)
        BY <2>1, <2>2, <2>3, <2>7, <1>0, PushBefore
    <2>9. ASSUME NEW n, PipelineBefore(n)
          PROVE  AllBefore(delivered', n) /\ AllBefore(queue', n)
        <3>1. Head(queue).seq < n /\ AllBefore(queue', n)
            BY <2>4, <2>9 DEF PipelineBefore, AllBefore
        <3> QED
            BY <2>1, <2>2, <2>9, <3>1, <1>0, PushBefore DEF PipelineBefore
    <2>10. /\ adding.step = "idle" => PipelineBefore(captured + 1)'
           /\ adding.step # "idle" => PipelineBefore(adding.frame.seq)'
        BY <2>1, <2>9 DEF OrderInv, PipelineBefore, AllBefore
    <2> QED
        BY <2>1, <2>3, <2>6, <2>8, <2>10 DEF OrderInv
<1>4. CASE PopFromFile
    <2>1. /\ queue # <<>> /\ queue' = Tail(queue)
          /\ taking'.step = "read" /\ taking'.entry = Head(queue)
          /\ UNCHANGED <<adding, captured, delivered>>
        BY <1>4 DEF PopFromFile, adders
    <2>2. /\ Ascending(queue')
          /\ \A j \in 1 .. Len(queue') : Head(queue).seq < queue'[j].seq
        BY <2>1, <1>0, TailAscends DEF OrderInv
    <2>3. /\ \A j \in 1 .. Len(queue') : \E k \in 1 .. Len(queue) : queue'[j] = queue[k]
          /\ \E k \in 1 .. Len(queue) : Head(queue) = queue[k]
        BY <2>1, <1>0, TailInherits
    <2>4. /\ AllBefore(delivered, Head(queue).seq)
          /\ \A j \in 1 .. Len(queue') : AllBefore(delivered, queue'[j].seq)
        BY <2>3 DEF OrderInv
    <2>5. ASSUME NEW n, PipelineBefore(n)
          PROVE  AllBefore(delivered, n) /\ Head(queue).seq < n /\ AllBefore(queue', n)
        BY <2>3, <2>5 DEF PipelineBefore, AllBefore
    <2>6. /\ adding.step = "idle" => PipelineBefore(captured + 1)'
          /\ adding.step # "idle" => PipelineBefore(adding.frame.seq)'
        BY <2>1, <2>5 DEF OrderInv, PipelineBefore, AllBefore
    <2> QED
        BY <2>1, <2>2, <2>4, <2>6 DEF OrderInv, Ascending, AllBefore
<1>5. CASE ReturnBitmap
    <2>1. /\ taking.step = "read" /\ taking'.step # "read"
          /\ delivered' = Append(delivered, taking.entry)
          /\ UNCHANGED <<queue, adding, captured>>
        BY <1>5 DEF ReturnBitmap, adders
    <2>2. Ascending(delivered')
        BY <2>1, <1>0, PushAscends DEF OrderInv
    <2>3. \A j \in 1 .. Len(queue) : AllBefore(delivered', queue[j].seq)
        BY <2>1, <1>0, PushBefore DEF OrderInv
    <2>4. ASSUME NEW n, PipelineBefore(n) PROVE AllBefore(delivered', n)
        BY <2>1, <2>4, <1>0, PushBefore DEF PipelineBefore
    <2>5. /\ adding.step = "idle" => PipelineBefore(captured + 1)'
          /\ adding.step # "idle" => PipelineBefore(adding.frame.seq)'
        BY <2>1, <2>4 DEF OrderInv, PipelineBefore, AllBefore
    <2> QED
        BY <2>1, <2>2, <2>3, <2>5 DEF OrderInv, Ascending
<1> QED
    BY <1>1, <1>2, <1>3, <1>4, <1>5 DEF EncoderThread

LEMMA NextKeepsOrderInv == OrderInv /\ TypeOK' /\ [Next]_vars => OrderInv'
BY StartKeepsOrderInv, CaptureKeepsOrderInv, EncoderKeepsOrderInv, OthersKeepOrderInv
   DEF Next, vars, AudioThread, CapturePacket, SetAudioMark, adders, takers

LEMMA InitOrderInv == Init => OrderInv
<1> SUFFICES ASSUME Init PROVE OrderInv
    OBVIOUS
<1>1. Len(queue) = 0 /\ Len(delivered) = 0
    BY EmptySeq DEF Init
<1> QED
    BY <1>1, InitType DEF Init, OrderInv, Ascending, AllBefore, PipelineBefore
-------------------------------------------------------------------------------
(* The audio comes first                                                   *)

AllDue(entries) == \A i \in 1 .. Len(entries) : entries[i].tag <= audio_sync

\* While the queue has been started at most once: packets are drawn in
\* ascending order, so the sync only rises, and what front() showed due is
\* what pop() returns.
SyncInv ==
    starts <= 1 =>
        /\ starts = 0 => index = 0 /\ audio = <<>>
        /\ ~Started => delivered = <<>> /\ taking.step = "idle" /\ audio_sync = -1
        /\ \A i \in 1 .. Len(audio) : audio_sync < audio[i] /\ audio[i] <= index
        /\ \A i, j \in 1 .. Len(audio) : i < j => audio[i] < audio[j]
        /\ taking.step = "pop" => Due
        /\ taking.step = "read" => taking.entry.tag <= audio_sync
        /\ AllDue(delivered)
        /\ audio_sync <= index

AudioInv == TypeOK /\ SyncInv

LEMMA StartKeepsAudioInv ==
    ASSUME AudioInv, TypeOK', StartThread
    PROVE  AudioInv'
<1> USE DEF AudioInv, SyncInv, TypeOK, Mark
<1>1. CASE StartCall
    <2>1. CASE starts = 0
        BY <1>1, <2>1, EmptySeq
           DEF StartCall, Started, AllDue, Due, takers, marks, StartStep
    <2>2. CASE starts # 0
        BY <1>1, <2>2, BoundsAssumption DEF StartCall
    <2> QED
        BY <2>1, <2>2
<1>2. CASE ClearOne
    <2>1. UNCHANGED <<audio_sync, taking, delivered, starting, starts, index, audio>>
        BY <1>2 DEF ClearOne, takers, starters, marks, capture
    <2>2. ~Started \/ starts > 1
        BY <1>2 DEF ClearOne, Started
    <2>3. starts \in Int
        OBVIOUS
    <2>4. starts <= 1 => taking.step = "idle"
        BY <2>2, <2>3
    <2> QED
        BY <2>1, <2>4 DEF Started, AllDue
<1>3. CASE ClearDone
    BY <1>3 DEF ClearDone, Started, AllDue, Due, takers, marks, capture
<1>4. CASE ResetMarks
    BY <1>4, EmptySeq DEF ResetMarks, Started, AllDue, Due, takers, capture
<1> QED
    BY <1>1, <1>2, <1>3, <1>4 DEF StartThread

LEMMA AudioKeepsAudioInv ==
    ASSUME AudioInv, TypeOK', AudioThread
    PROVE  AudioInv'
<1> USE DEF AudioInv
<1>1. CASE CapturePacket
    <2>1. /\ index' = index + 1 /\ audio' = Append(audio, index + 1)
          /\ starts > 0
          /\ UNCHANGED <<queue, audio_sync, taking, delivered, starting, starts>>
        BY <1>1 DEF CapturePacket, takers, starters, marks
    <2>a. index < MaxMark /\ index \in 0 .. MaxMark
        BY <1>1 DEF CapturePacket, TypeOK
    <2>b. audio_sync \in Int /\ starts \in Int /\ audio \in Seq(1 .. MaxMark)
        BY BoundsAssumption DEF TypeOK, Mark
    <2>2. /\ audio \in Seq(1 .. MaxMark) /\ index + 1 \in 1 .. MaxMark
          /\ index \in Int /\ audio_sync \in Int /\ starts \in Int
        BY <2>a, <2>b, BoundsAssumption
    <2>3. /\ Len(audio) \in Nat
          /\ Len(audio') = Len(audio) + 1
          /\ audio'[Len(audio) + 1] = index + 1
          /\ \A i \in 1 .. Len(audio) : audio'[i] = audio[i]
        BY <2>1, <2>2, AppendFacts
    <2>4. \A i \in 1 .. Len(audio) : audio[i] \in Int
        <3>1. \A i \in 1 .. Len(audio) : audio[i] \in 1 .. MaxMark
            BY <2>2, ElementOfSeq
        <3> QED
            BY <3>1, BoundsAssumption
    <2>5. ASSUME starts <= 1, NEW i \in 1 .. Len(audio')
          PROVE  audio_sync < audio'[i] /\ audio'[i] <= index + 1
        <3>1. CASE i \in 1 .. Len(audio)
            BY <2>2, <2>3, <2>4, <2>5, <3>1 DEF SyncInv
        <3>2. CASE i = Len(audio) + 1
            BY <2>2, <2>3, <2>5, <3>2 DEF SyncInv
        <3> QED
            BY <2>3, <3>1, <3>2
    <2>6. ASSUME starts <= 1, NEW i \in 1 .. Len(audio'), NEW j \in 1 .. Len(audio'), i < j
          PROVE  audio'[i] < audio'[j]
        <3>1. i \in 1 .. Len(audio) /\ audio'[i] = audio[i]
            BY <2>3, <2>6
        <3>2. CASE j \in 1 .. Len(audio)
            BY <2>3, <2>6, <3>1, <3>2 DEF SyncInv
        <3>3. CASE j = Len(audio) + 1
            <4>1. audio[i] <= index
                BY <2>6, <3>1 DEF SyncInv
            <4> QED
                BY <2>2, <2>3, <2>4, <3>1, <3>3, <4>1
        <3> QED
            BY <2>3, <3>2, <3>3
    <2>7. starts <= 1 => audio_sync' <= index'
        BY <2>1, <2>2 DEF SyncInv
    <2>8. starts # 0
        BY <2>1, <2>2
    <2> QED
        BY <2>1, <2>5, <2>6, <2>7, <2>8 DEF SyncInv, Started, AllDue, Due
<1>2. CASE SetAudioMark
    BY <1>2 DEF SetAudioMark, SyncInv, Started, AllDue, Due, takers, starters
<1> QED
    BY <1>1, <1>2 DEF AudioThread

LEMMA CaptureKeepsAudioInv ==
    ASSUME AudioInv, TypeOK', CaptureThread
    PROVE  AudioInv'
<1> USE DEF AudioInv
<1>1. UNCHANGED <<audio_sync, taking, delivered, starting, starts, index, audio>>
    BY DEF CaptureThread, AddBitmap, AddBitmapLowMemory, KeepInMemory, SpillToFile,
           SpillFails, PushEntry, takers, starters, marks, capture
<1>2. Due => Due'
    <2>1. CASE PushEntry
        <3>1. queue \in Seq(Entry) /\ adding.frame \in Entry /\ queue' = Append(queue, adding.frame)
            BY <2>1 DEF PushEntry, TypeOK
        <3> QED
            BY <1>1, <3>1, AppendFacts DEF Due
    <2>2. CASE UNCHANGED queue
        BY <1>1, <2>2 DEF Due
    <2> QED
        BY <2>1, <2>2 DEF CaptureThread, AddBitmap, AddBitmapLowMemory, KeepInMemory,
                          SpillToFile, SpillFails
<1> QED
    BY <1>1, <1>2 DEF SyncInv, Started, AllDue

\* A bitmap that is due may be added to those delivered.
LEMMA DeliverDue ==
    ASSUME NEW e \in Entry, delivered \in Seq(Entry), AllDue(delivered), e.tag <= audio_sync,
           delivered' = Append(delivered, e), UNCHANGED audio_sync
    PROVE  AllDue(delivered)'
BY AppendFacts DEF AllDue

LEMMA EncoderKeepsAudioInv ==
    ASSUME AudioInv, TypeOK', EncoderThread
    PROVE  AudioInv'
<1> USE DEF AudioInv
<1>0. queue \in Seq(Entry) /\ delivered \in Seq(Entry) /\ taking.entry \in Entry
    BY DEF TypeOK
<1>1. CASE SetAudioSync
    <2>1. /\ Started /\ taking.step = "idle" /\ audio # <<>>
          /\ audio_sync' = Head(audio) /\ audio' = Tail(audio)
          /\ UNCHANGED <<taking, delivered, starting, starts, index>>
        BY <1>1 DEF SetAudioSync, takers, starters
    <2>2. /\ audio \in Seq(1 .. MaxMark)
          /\ audio_sync \in Int /\ index \in Int
          /\ \A i \in 1 .. Len(audio) : audio[i] \in Int
        BY ElementOfSeq, BoundsAssumption, SMTT(60) DEF TypeOK, Mark
    <2>3. /\ Head(audio) = audio[1]
          /\ Len(audio) \in Nat \ {0}
          /\ Len(Tail(audio)) = Len(audio) - 1
          /\ \A i \in 1 .. Len(Tail(audio)) : i + 1 \in 1 .. Len(audio) /\ Tail(audio)[i] = audio[i + 1]
        BY <2>1, <2>2, TailFacts
    <2>4. \A i \in 1 .. Len(delivered) : delivered[i].tag \in Int
        <3>1. \A e \in Entry : e.tag \in Int
            BY BoundsAssumption DEF Entry, Mark
        <3> QED
            BY <1>0, <3>1, ElementOfSeq
    <2>5. starts <= 1 => audio_sync < audio[1] /\ audio[1] <= index
        BY <2>3 DEF SyncInv
    <2>6. starts <= 1 => AllDue(delivered)'
        BY <2>1, <2>2, <2>3, <2>4, <2>5 DEF SyncInv, AllDue
    <2>7. starts <= 1 =>
             /\ \A i \in 1 .. Len(audio') : audio_sync' < audio'[i] /\ audio'[i] <= index
             /\ \A i, j \in 1 .. Len(audio') : i < j => audio'[i] < audio'[j]
        BY <2>1, <2>2, <2>3 DEF SyncInv
    <2>8. starts <= 1 => starts # 0
        BY <2>1 DEF Started, TypeOK
    <2> QED
        BY <2>1, <2>3, <2>5, <2>6, <2>7, <2>8 DEF SyncInv, Started
<1>2. CASE PeekBitmap
    BY <1>2 DEF PeekBitmap, SyncInv, Started, AllDue, Due, TypeOK, starters, marks, capture
<1>3. CASE PopNothing \/ ReadFile \/ ReadFileFails
    BY <1>3 DEF PopNothing, ReadFile, ReadFileFails, SyncInv, Started, AllDue, starters, marks, capture
<1>4. CASE PopFromMemory
    <2>1. /\ queue # <<>> /\ taking.step = "pop" /\ taking'.step = "idle"
          /\ delivered' = Append(delivered, Head(queue))
          /\ UNCHANGED <<audio_sync, starting, starts, index, audio>>
        BY <1>4 DEF PopFromMemory, starters, marks, capture
    <2>2. Head(queue) \in Entry
        BY <2>1, <1>0, TailFacts
    <2>3. starts <= 1 => AllDue(delivered)'
        BY <2>1, <2>2, <1>0, DeliverDue DEF SyncInv, Due
    <2> QED
        BY <2>1, <2>3 DEF SyncInv, Started
<1>5. CASE PopFromFile
    BY <1>5 DEF PopFromFile, SyncInv, Started, AllDue, Due, starters, marks, capture
<1>6. CASE ReturnBitmap
    <2>1. /\ taking.step = "read" /\ taking'.step = "idle"
          /\ delivered' = Append(delivered, taking.entry)
          /\ UNCHANGED <<audio_sync, starting, starts, index, audio>>
        BY <1>6 DEF ReturnBitmap, starters, marks, capture
    <2>2. starts <= 1 => AllDue(delivered)'
        BY <2>1, <1>0, DeliverDue DEF SyncInv
    <2> QED
        BY <2>1, <2>2 DEF SyncInv, Started
<1> QED
    BY <1>1, <1>2, <1>3, <1>4, <1>5, <1>6 DEF EncoderThread

LEMMA InitAudioInv == Init => AudioInv
<1> SUFFICES ASSUME Init PROVE AudioInv
    OBVIOUS
<1>1. Len(audio) = 0 /\ Len(delivered) = 0
    BY EmptySeq DEF Init
<1> QED
    BY <1>1, InitType DEF Init, AudioInv, SyncInv, AllDue

LEMMA NextKeepsAudioInv == AudioInv /\ TypeOK' /\ [Next]_vars => AudioInv'
<1>1. AudioInv /\ UNCHANGED vars => AudioInv'
    BY StutterType DEF AudioInv, SyncInv, AllDue, Due, Started, vars, takers
<1> QED
    BY <1>1, StartKeepsAudioInv, AudioKeepsAudioInv, CaptureKeepsAudioInv, EncoderKeepsAudioInv
       DEF Next
-------------------------------------------------------------------------------
(* Every bitmap is in one place                                            *)

SeqsOf(entries) == {entries[i].seq : i \in DOMAIN entries}

\* The bitmaps that are on their way to the encoder or were delivered.
Pipeline == AddingSeqs \cup QueuedSeqs \cup ReadingSeqs \cup DeliveredSeqs

\* What was captured is on its way, delivered or lost, and nothing lost is any
\* of the others.
PlaceInv ==
    /\ 1 .. captured \subseteq Pipeline \cup lost
    /\ lost \subseteq 0 .. captured
    /\ lost \cap Pipeline = {}

LEMMA SeqsOfMember ==
    ASSUME NEW s \in Seq(Entry)
    PROVE  \A n : n \in SeqsOf(s) <=> \E i \in 1 .. Len(s) : n = s[i].seq
BY LenProperties DEF SeqsOf

LEMMA SeqsAfterPush ==
    ASSUME NEW s \in Seq(Entry), NEW e \in Entry
    PROVE  SeqsOf(Append(s, e)) = SeqsOf(s) \cup {e.seq}
<1>1. PICK t \in Seq(Entry) :
          /\ t = Append(s, e) /\ Len(s) \in Nat /\ Len(t) = Len(s) + 1
          /\ t[Len(s) + 1] = e
          /\ \A i \in 1 .. Len(s) : t[i] = s[i]
    <2>1. /\ Append(s, e) \in Seq(Entry) /\ Len(s) \in Nat
          /\ Len(Append(s, e)) = Len(s) + 1
          /\ Append(s, e)[Len(s) + 1] = e
          /\ \A i \in 1 .. Len(s) : Append(s, e)[i] = s[i]
        BY AppendFacts
    <2> QED
        BY <2>1
<1>2. \A n : n \in SeqsOf(t) <=> \E i \in 1 .. Len(t) : n = t[i].seq
    BY SeqsOfMember
<1>3. \A i \in 1 .. Len(t) : i \in 1 .. Len(s) \/ i = Len(s) + 1
    BY <1>1
<1>4. Len(s) + 1 \in 1 .. Len(t) /\ \A i \in 1 .. Len(s) : i \in 1 .. Len(t)
    BY <1>1
<1>5. \A n : n \in SeqsOf(t) <=> n \in SeqsOf(s) \/ n = e.seq
    BY <1>1, <1>2, <1>3, <1>4, SeqsOfMember
<1> QED
    BY <1>1, <1>5

LEMMA SeqsAfterPop ==
    ASSUME NEW s \in Seq(Entry), s # <<>>, Ascending(s)
    PROVE  SeqsOf(Tail(s)) = SeqsOf(s) \ {Head(s).seq} /\ Head(s).seq \in SeqsOf(s)
<1>1. /\ Tail(s) \in Seq(Entry) /\ Head(s) = s[1]
      /\ Len(s) \in Nat \ {0}
      /\ Len(Tail(s)) = Len(s) - 1
      /\ \A i \in 1 .. Len(Tail(s)) : i + 1 \in 1 .. Len(s) /\ Tail(s)[i] = s[i + 1]
    BY TailFacts
<1>2. \A n : n \in SeqsOf(Tail(s)) <=> \E i \in 1 .. Len(Tail(s)) : n = Tail(s)[i].seq
    BY <1>1, SeqsOfMember
<1>3. \A j \in 2 .. Len(s) : j - 1 \in 1 .. Len(Tail(s)) /\ Tail(s)[j - 1] = s[j]
    BY <1>1
<1>4. \A j \in 1 .. Len(s) : j = 1 \/ j \in 2 .. Len(s)
    BY <1>1
<1>5. 1 \in 1 .. Len(s)
    BY <1>1
<1>6. \A i \in 1 .. Len(Tail(s)) : Tail(s)[i].seq # Head(s).seq
    <2>1. \A i \in 1 .. Len(Tail(s)) : Head(s).seq < Tail(s)[i].seq
        BY TailAscends
    <2>2. Head(s).seq \in Nat
        BY TailFacts, SeqIsNat
    <2> QED
        BY <2>1, <2>2
<1>7. ASSUME NEW n PROVE n \in SeqsOf(Tail(s)) <=> n \in SeqsOf(s) /\ n # Head(s).seq
    <2>1. ASSUME n \in SeqsOf(Tail(s)) PROVE n \in SeqsOf(s) /\ n # Head(s).seq
        <3>1. PICK i \in 1 .. Len(Tail(s)) : n = Tail(s)[i].seq
            BY <1>2, <2>1
        <3> QED
            BY <1>1, <1>6, <3>1, SeqsOfMember
    <2>2. ASSUME n \in SeqsOf(s), n # Head(s).seq PROVE n \in SeqsOf(Tail(s))
        <3>1. PICK j \in 1 .. Len(s) : n = s[j].seq
            BY <2>2, SeqsOfMember
        <3>2. j \in 2 .. Len(s)
            BY <1>1, <1>4, <2>2, <3>1
        <3> QED
            BY <1>2, <1>3, <3>1, <3>2
    <2> QED
        BY <2>1, <2>2
<1>8. Head(s).seq \in SeqsOf(s)
    BY <1>1, <1>5, SeqsOfMember
<1> QED
    BY <1>7, <1>8

\* The stages of the pipeline have no bitmap in common, and none that was not
\* captured.
LEMMA StagesApart ==
    ASSUME OrderInv
    PROVE  /\ AddingSeqs \cap QueuedSeqs = {} /\ AddingSeqs \cap ReadingSeqs = {}
           /\ AddingSeqs \cap DeliveredSeqs = {} /\ QueuedSeqs \cap ReadingSeqs = {}
           /\ QueuedSeqs \cap DeliveredSeqs = {} /\ ReadingSeqs \cap DeliveredSeqs = {}
           /\ Pipeline \subseteq 0 .. captured
<1>1. /\ queue \in Seq(Entry) /\ delivered \in Seq(Entry)
      /\ adding.frame.seq \in Nat /\ taking.entry.seq \in Nat /\ captured \in Nat
    BY SeqIsNat, BoundsAssumption DEF OrderInv, TypeOK, SeqNo
<1>2. /\ \A n : n \in QueuedSeqs <=> \E i \in 1 .. Len(queue) : n = queue[i].seq
      /\ \A n : n \in DeliveredSeqs <=> \E i \in 1 .. Len(delivered) : n = delivered[i].seq
    BY <1>1, SeqsOfMember DEF SeqsOf, QueuedSeqs, DeliveredSeqs
<1>3. /\ \A i \in 1 .. Len(queue) : queue[i].seq \in Nat
      /\ \A i \in 1 .. Len(delivered) : delivered[i].seq \in Nat
    BY <1>1, ElementOfSeq, SeqIsNat
<1>4. \A q \in QueuedSeqs, d \in DeliveredSeqs : q \in Nat /\ d \in Nat /\ d < q
    BY <1>2, <1>3 DEF OrderInv, AllBefore
<1>5. \A r \in ReadingSeqs : r \in Nat /\ (\A d \in DeliveredSeqs : d < r) /\ (\A q \in QueuedSeqs : r < q)
    BY <1>1, <1>2, SMTT(60) DEF OrderInv, AllBefore, ReadingSeqs
<1>6. \A n \in Nat : PipelineBefore(n) =>
          \A x \in QueuedSeqs \cup DeliveredSeqs \cup ReadingSeqs : x \in Nat /\ x < n
    <2> SUFFICES ASSUME NEW n \in Nat, PipelineBefore(n),
                        NEW x \in QueuedSeqs \cup DeliveredSeqs \cup ReadingSeqs
                 PROVE  x \in Nat /\ x < n
        OBVIOUS
    <2>1. CASE x \in QueuedSeqs
        BY <1>2, <1>3, <2>1 DEF PipelineBefore, AllBefore
    <2>2. CASE x \in DeliveredSeqs
        BY <1>2, <1>3, <2>2 DEF PipelineBefore, AllBefore
    <2>3. CASE x \in ReadingSeqs
        BY <1>1, <2>3 DEF PipelineBefore, ReadingSeqs
    <2> QED
        BY <2>1, <2>2, <2>3
<1>7. CASE adding.step = "idle"
    <2>1. AddingSeqs = {} /\ PipelineBefore(captured + 1) /\ captured + 1 \in Nat
        BY <1>1, <1>7 DEF OrderInv, AddingSeqs
    <2>2. \A x \in QueuedSeqs \cup DeliveredSeqs \cup ReadingSeqs : x \in Nat /\ x < captured + 1
        BY <1>6, <2>1
    <2>3. Pipeline \subseteq 0 .. captured
        BY <1>1, <2>1, <2>2 DEF Pipeline
    <2> QED
        BY <1>4, <1>5, <2>1, <2>3
<1>8. CASE adding.step # "idle"
    <2>1. AddingSeqs = {adding.frame.seq} /\ PipelineBefore(adding.frame.seq)
          /\ adding.frame.seq <= captured
        BY <1>8 DEF OrderInv, AddingSeqs
    <2>2. \A x \in QueuedSeqs \cup DeliveredSeqs \cup ReadingSeqs : x \in Nat /\ x < adding.frame.seq
        BY <1>1, <1>6, <2>1
    <2>3. Pipeline \subseteq 0 .. captured
        BY <1>1, <2>1, <2>2 DEF Pipeline
    <2> QED
        BY <1>1, <1>4, <1>5, <2>1, <2>2, <2>3
<1> QED
    BY <1>7, <1>8

\* The four ways in which a step changes the places.
LEMMA MovesOn ==
    ASSUME PlaceInv, Pipeline' = Pipeline, UNCHANGED <<captured, lost>>
    PROVE  PlaceInv'
BY DEF PlaceInv

LEMMA IsLost ==
    ASSUME PlaceInv, Pipeline \subseteq 0 .. captured, NEW s \in Pipeline,
           Pipeline' = Pipeline \ {s}, lost' = lost \cup {s}, UNCHANGED captured
    PROVE  PlaceInv'
BY DEF PlaceInv

LEMMA Enters ==
    ASSUME PlaceInv, captured \in Nat, Pipeline \subseteq 0 .. captured,
           captured' = captured + 1, Pipeline' = Pipeline \cup {captured + 1}, UNCHANGED lost
    PROVE  PlaceInv'
<1>1. captured + 1 \notin lost /\ captured + 1 \notin Pipeline
    BY DEF PlaceInv
<1>2. 1 .. captured + 1 = (1 .. captured) \cup {captured + 1}
    OBVIOUS
<1>3. 0 .. captured \subseteq 0 .. captured + 1
    OBVIOUS
<1> QED
    BY <1>1, <1>2, <1>3 DEF PlaceInv

LEMMA IsRefused ==
    ASSUME PlaceInv, captured \in Nat, Pipeline \subseteq 0 .. captured,
           captured' = captured + 1, Pipeline' = Pipeline, lost' = lost \cup {captured + 1}
    PROVE  PlaceInv'
<1>1. captured + 1 \notin Pipeline
    OBVIOUS
<1>2. 1 .. captured + 1 = (1 .. captured) \cup {captured + 1}
    OBVIOUS
<1>3. 0 .. captured \subseteq 0 .. captured + 1 /\ captured + 1 \in 0 .. captured + 1
    OBVIOUS
<1> QED
    BY <1>1, <1>2, <1>3 DEF PlaceInv

\* What pop() takes was in the queue only.
LEMMA PopsOne ==
    ASSUME OrderInv, queue # <<>>, queue' = Tail(queue)
    PROVE  /\ Head(queue).seq \in QueuedSeqs /\ QueuedSeqs' = QueuedSeqs \ {Head(queue).seq}
           /\ Head(queue).seq \notin AddingSeqs \cup ReadingSeqs \cup DeliveredSeqs
<1>1. queue \in Seq(Entry) /\ Ascending(queue)
    BY DEF OrderInv, TypeOK
<1>2. SeqsOf(Tail(queue)) = SeqsOf(queue) \ {Head(queue).seq} /\ Head(queue).seq \in SeqsOf(queue)
    BY <1>1, SeqsAfterPop
<1>3. Head(queue).seq \in QueuedSeqs /\ QueuedSeqs' = QueuedSeqs \ {Head(queue).seq}
    BY <1>2 DEF SeqsOf, QueuedSeqs
<1> QED
    BY <1>3, StagesApart

LEMMA StartKeepsPlaces ==
    ASSUME OrderInv, PlaceInv, StartThread
    PROVE  PlaceInv'
<1>1. CASE ClearOne
    <2>1. /\ queue # <<>> /\ queue' = Tail(queue) /\ lost' = lost \cup {Head(queue).seq}
          /\ UNCHANGED <<adding, captured, taking, delivered>>
        BY <1>1 DEF ClearOne, adders, takers, Lose
    <2>2. /\ Head(queue).seq \in QueuedSeqs /\ QueuedSeqs' = QueuedSeqs \ {Head(queue).seq}
          /\ Head(queue).seq \notin AddingSeqs \cup ReadingSeqs \cup DeliveredSeqs
        BY <2>1, PopsOne
    <2>3. AddingSeqs' = AddingSeqs /\ ReadingSeqs' = ReadingSeqs /\ DeliveredSeqs' = DeliveredSeqs
        BY <2>1 DEF AddingSeqs, ReadingSeqs, DeliveredSeqs
    <2>4. Pipeline' = Pipeline \ {Head(queue).seq} /\ Head(queue).seq \in Pipeline
        BY <2>2, <2>3 DEF Pipeline
    <2> QED
        BY <2>1, <2>4, StagesApart, IsLost
<1>2. CASE ~ClearOne
    <2>1. UNCHANGED <<queue, adding, captured, taking, delivered, lost>>
        BY <1>2 DEF StartThread, StartCall, ClearDone, ResetMarks, adders, takers
    <2> QED
        BY <2>1, MovesOn DEF Pipeline, AddingSeqs, QueuedSeqs, ReadingSeqs, DeliveredSeqs
<1> QED
    BY <1>1, <1>2

LEMMA CaptureKeepsPlaces ==
    ASSUME OrderInv, PlaceInv, CaptureThread
    PROVE  PlaceInv'
<1>0. captured \in Nat /\ adding.frame \in Entry /\ queue \in Seq(Entry)
    BY BoundsAssumption DEF OrderInv, TypeOK, SeqNo
<1>a. UNCHANGED <<taking, delivered>> /\ ReadingSeqs' = ReadingSeqs /\ DeliveredSeqs' = DeliveredSeqs
    BY DEF CaptureThread, AddBitmap, AddBitmapLowMemory, KeepInMemory, SpillToFile, SpillFails,
           PushEntry, takers, ReadingSeqs, DeliveredSeqs
<1>1. CASE AddBitmap
    <2>1. /\ captured' = captured + 1 /\ adding.step = "idle" /\ adding'.step # "idle"
          /\ adding'.frame.seq = captured + 1 /\ UNCHANGED <<queue, lost>>
        BY <1>1 DEF AddBitmap, NoEntry
    <2>2. /\ AddingSeqs = {} /\ AddingSeqs' = {captured + 1} /\ QueuedSeqs' = QueuedSeqs
        BY <2>1 DEF AddingSeqs, QueuedSeqs
    <2>3. Pipeline' = Pipeline \cup {captured + 1}
        BY <1>a, <2>2 DEF Pipeline
    <2> QED
        BY <1>0, <2>1, <2>3, StagesApart, Enters
<1>2. CASE AddBitmapLowMemory
    <2>1. /\ captured' = captured + 1 /\ lost' = lost \cup {captured + 1}
          /\ UNCHANGED <<queue, adding>>
        BY <1>2 DEF AddBitmapLowMemory, Lose
    <2>2. Pipeline' = Pipeline
        BY <1>a, <2>1 DEF Pipeline, AddingSeqs, QueuedSeqs
    <2> QED
        BY <1>0, <2>1, <2>2, StagesApart, IsRefused
<1>3. CASE KeepInMemory \/ SpillToFile
    <2>1. /\ adding.step # "idle" /\ adding'.step # "idle"
          /\ adding'.frame.seq = adding.frame.seq /\ UNCHANGED <<queue, captured, lost>>
        BY <1>0, <1>3, StampKeepsSeq DEF KeepInMemory, SpillToFile
    <2>2. Pipeline' = Pipeline
        BY <1>a, <2>1 DEF Pipeline, AddingSeqs, QueuedSeqs
    <2> QED
        BY <2>1, <2>2, MovesOn
<1>4. CASE SpillFails
    <2>1. /\ adding.step # "idle" /\ adding'.step = "idle" /\ lost' = lost \cup {adding.frame.seq}
          /\ UNCHANGED <<queue, captured>>
        BY <1>4 DEF SpillFails, Lose
    <2>2. AddingSeqs = {adding.frame.seq} /\ AddingSeqs' = {} /\ QueuedSeqs' = QueuedSeqs
        BY <2>1 DEF AddingSeqs, QueuedSeqs
    <2>3. Pipeline' = Pipeline \ {adding.frame.seq} /\ adding.frame.seq \in Pipeline
        BY <1>a, <2>2, StagesApart DEF Pipeline
    <2> QED
        BY <2>1, <2>3, StagesApart, IsLost
<1>5. CASE PushEntry
    <2>1. /\ adding.step # "idle" /\ adding'.step = "idle" /\ queue' = Append(queue, adding.frame)
          /\ UNCHANGED <<captured, lost>>
        BY <1>5 DEF PushEntry
    <2>2. AddingSeqs = {adding.frame.seq} /\ AddingSeqs' = {}
        BY <2>1 DEF AddingSeqs
    <2>3. QueuedSeqs' = QueuedSeqs \cup {adding.frame.seq}
        BY <1>0, <2>1, SeqsAfterPush DEF QueuedSeqs, SeqsOf
    <2>4. Pipeline' = Pipeline
        BY <1>a, <2>2, <2>3 DEF Pipeline
    <2> QED
        BY <2>1, <2>4, MovesOn
<1> QED
    BY <1>1, <1>2, <1>3, <1>4, <1>5 DEF CaptureThread

LEMMA EncoderKeepsPlaces ==
    ASSUME OrderInv, PlaceInv, EncoderThread
    PROVE  PlaceInv'
<1>0. /\ queue \in Seq(Entry) /\ delivered \in Seq(Entry) /\ taking.entry \in Entry
      /\ queue # <<>> => Head(queue) \in Entry
    BY TailFacts DEF OrderInv, TypeOK
<1>a. UNCHANGED <<adding, captured>> /\ AddingSeqs' = AddingSeqs
    BY DEF EncoderThread, SetAudioSync, PeekBitmap, PopNothing, PopFromMemory, PopFromFile,
           ReadFile, ReturnBitmap, ReadFileFails, adders, AddingSeqs
<1>1. CASE SetAudioSync \/ ReadFile
    BY <1>1, <1>a, MovesOn
       DEF SetAudioSync, ReadFile, takers, Pipeline, QueuedSeqs, ReadingSeqs, DeliveredSeqs
<1>2. CASE PeekBitmap \/ PopNothing
    <2>1. taking.step # "read" /\ taking'.step # "read" /\ UNCHANGED <<queue, delivered, lost>>
        BY <1>2 DEF PeekBitmap, PopNothing, OrderInv, TypeOK
    <2> QED
        BY <1>a, <2>1, MovesOn DEF Pipeline, QueuedSeqs, ReadingSeqs, DeliveredSeqs
<1>3. CASE PopFromMemory
    <2>1. /\ queue # <<>> /\ queue' = Tail(queue) /\ delivered' = Append(delivered, Head(queue))
          /\ taking.step # "read" /\ taking'.step # "read" /\ UNCHANGED lost
        BY <1>3 DEF PopFromMemory
    <2>2. /\ Head(queue).seq \in QueuedSeqs /\ QueuedSeqs' = QueuedSeqs \ {Head(queue).seq}
        BY <2>1, PopsOne
    <2>3. DeliveredSeqs' = DeliveredSeqs \cup {Head(queue).seq}
        BY <1>0, <2>1, SeqsAfterPush, SMTT(60) DEF DeliveredSeqs, SeqsOf
    <2>4. ReadingSeqs' = ReadingSeqs
        BY <2>1 DEF ReadingSeqs
    <2>5. Pipeline' = Pipeline
        BY <1>a, <2>2, <2>3, <2>4 DEF Pipeline
    <2> QED
        BY <1>a, <2>1, <2>5, MovesOn
<1>4. CASE PopFromFile
    <2>1. /\ queue # <<>> /\ queue' = Tail(queue) /\ taking'.entry = Head(queue)
          /\ taking.step # "read" /\ taking'.step = "read" /\ UNCHANGED <<delivered, lost>>
        BY <1>4 DEF PopFromFile
    <2>2. /\ Head(queue).seq \in QueuedSeqs /\ QueuedSeqs' = QueuedSeqs \ {Head(queue).seq}
        BY <2>1, PopsOne
    <2>3. ReadingSeqs = {} /\ ReadingSeqs' = {Head(queue).seq} /\ DeliveredSeqs' = DeliveredSeqs
        BY <2>1 DEF ReadingSeqs, DeliveredSeqs
    <2>4. Pipeline' = Pipeline
        BY <1>a, <2>2, <2>3 DEF Pipeline
    <2> QED
        BY <1>a, <2>1, <2>4, MovesOn
<1>5. CASE ReturnBitmap
    <2>1. /\ delivered' = Append(delivered, taking.entry)
          /\ taking.step = "read" /\ taking'.step # "read" /\ UNCHANGED <<queue, lost>>
        BY <1>5 DEF ReturnBitmap
    <2>2. ReadingSeqs = {taking.entry.seq} /\ ReadingSeqs' = {} /\ QueuedSeqs' = QueuedSeqs
        BY <2>1 DEF ReadingSeqs, QueuedSeqs
    <2>3. DeliveredSeqs' = DeliveredSeqs \cup {taking.entry.seq}
        BY <1>0, <2>1, SeqsAfterPush DEF DeliveredSeqs, SeqsOf
    <2>4. Pipeline' = Pipeline
        BY <1>a, <2>2, <2>3 DEF Pipeline
    <2> QED
        BY <1>a, <2>1, <2>4, MovesOn
<1>6. CASE ReadFileFails
    <2>1. /\ lost' = lost \cup {taking.entry.seq}
          /\ taking.step = "read" /\ taking'.step # "read" /\ UNCHANGED <<queue, delivered>>
        BY <1>6 DEF ReadFileFails, Lose
    <2>2. /\ ReadingSeqs = {taking.entry.seq} /\ ReadingSeqs' = {} /\ QueuedSeqs' = QueuedSeqs
          /\ DeliveredSeqs' = DeliveredSeqs
        BY <2>1 DEF ReadingSeqs, QueuedSeqs, DeliveredSeqs
    <2>3. Pipeline' = Pipeline \ {taking.entry.seq} /\ taking.entry.seq \in Pipeline
        BY <1>a, <2>2, StagesApart DEF Pipeline
    <2> QED
        BY <1>a, <2>1, <2>3, StagesApart, IsLost
<1> QED
    BY <1>1, <1>2, <1>3, <1>4, <1>5, <1>6 DEF EncoderThread

LEMMA NextKeepsPlaces == OrderInv /\ PlaceInv /\ [Next]_vars => PlaceInv'
<1> SUFFICES ASSUME OrderInv, PlaceInv, [Next]_vars PROVE PlaceInv'
    OBVIOUS
<1>1. CASE StartThread
    BY <1>1, StartKeepsPlaces
<1>2. CASE AudioThread \/ UNCHANGED vars
    <2>1. UNCHANGED <<queue, adding, taking, captured, delivered, lost>>
        BY <1>2 DEF AudioThread, CapturePacket, SetAudioMark, adders, takers, vars
    <2> QED
        BY <2>1 DEF PlaceInv, Pipeline, AddingSeqs, QueuedSeqs, ReadingSeqs, DeliveredSeqs
<1>3. CASE CaptureThread
    BY <1>3, CaptureKeepsPlaces
<1>4. CASE EncoderThread
    BY <1>4, EncoderKeepsPlaces
<1> QED
    BY <1>1, <1>2, <1>3, <1>4 DEF Next

LEMMA InitPlaces == Init => PlaceInv
<1> SUFFICES ASSUME Init PROVE PlaceInv
    OBVIOUS
<1>1. captured = 0 /\ lost = {} /\ Pipeline \cap lost = {}
    BY DEF Init
<1>2. 1 .. 0 = {}
    OBVIOUS
<1> QED
    BY <1>1, <1>2 DEF PlaceInv

\* A bitmap that is in one place and in no other is in exactly one.
LEMMA InOnePlace ==
    ASSUME OrderInv, PlaceInv, NEW s \in 1 .. captured
    PROVE  OncePlaced(s)
<1> DEFINE In(p) == \/ p = "adding" /\ s \in AddingSeqs
                    \/ p = "queued" /\ s \in QueuedSeqs
                    \/ p = "reading" /\ s \in ReadingSeqs
                    \/ p = "delivered" /\ s \in DeliveredSeqs
                    \/ p = "lost" /\ s \in lost
           places == {p \in {"adding", "queued", "reading", "delivered", "lost"} : In(p)}
<1>1. \E p \in {"adding", "queued", "reading", "delivered", "lost"} : In(p)
    BY DEF PlaceInv, Pipeline
<1>2. \A p, q \in {"adding", "queued", "reading", "delivered", "lost"} : In(p) /\ In(q) => p = q
    BY StagesApart DEF PlaceInv, Pipeline
<1> HIDE DEF In
<1>3. PICK p : places = {p}
    BY <1>1, <1>2
<1>4. Cardinality(places) = 1
    BY <1>3, FS_Singleton
<1> QED
    BY <1>4 DEF OncePlaced, In
-------------------------------------------------------------------------------
(* What the files hold                                                     *)

Twice(e, sp) == e.at = "file" /\ \E s, u \in sp[e.name] : s # u

\* The file of an entry holds its bitmap, or two bitmaps were written to it.
Kept(e, fs, sp) ==
    e.at = "file" => e.seq \in sp[e.name] /\ (fs[e.name] = e \/ Twice(e, sp))

\* The bitmap p that comes out for an entry is its own, or a younger one of the
\* same file.
Shows(p, e, sp) == p = e \/ (Twice(e, sp) /\ p.seq >= e.seq)

Written(sp, n, s) == [sp EXCEPT ![n] = @ \cup {s}]

LEMMA StaysTwice ==
    ASSUME NEW sp \in [Second -> SUBSET SeqNo], NEW n \in Second, NEW s, NEW e \in Entry,
           Twice(e, sp)
    PROVE  Twice(e, Written(sp, n, s))
<1>1. e.name \in Second
    BY DEF Twice, Entry
<1>2. sp[e.name] \subseteq Written(sp, n, s)[e.name]
    BY <1>1 DEF Written
<1> QED
    BY <1>2 DEF Twice

LEMMA StaysShows ==
    ASSUME NEW sp \in [Second -> SUBSET SeqNo], NEW n \in Second, NEW s, NEW e \in Entry, NEW p,
           Shows(p, e, sp)
    PROVE  Shows(p, e, Written(sp, n, s))
BY StaysTwice DEF Shows

\* Another bitmap may be written to the file of an entry.
LEMMA StaysKept ==
    ASSUME NEW fs \in [Second -> Entry], NEW sp \in [Second -> SUBSET SeqNo], NEW n \in Second,
           NEW e \in Entry, NEW f \in Entry, f.seq # e.seq, Kept(e, fs, sp)
    PROVE  Kept(e, [fs EXCEPT ![n] = f], Written(sp, n, f.seq))
<1> SUFFICES ASSUME e.at = "file"
             PROVE  /\ e.seq \in Written(sp, n, f.seq)[e.name]
                    /\ [fs EXCEPT ![n] = f][e.name] = e \/ Twice(e, Written(sp, n, f.seq))
    BY DEF Kept
<1>1. e.name \in Second /\ e.seq \in sp[e.name] /\ (fs[e.name] = e \/ Twice(e, sp))
    BY DEF Kept, Entry
<1>2. CASE e.name = n
    <2>1. Written(sp, n, f.seq)[n] = sp[n] \cup {f.seq}
        BY DEF Written
    <2> QED
        BY <1>1, <1>2, <2>1 DEF Twice
<1>3. CASE e.name # n
    <2>1. Written(sp, n, f.seq)[e.name] = sp[e.name] /\ [fs EXCEPT ![n] = f][e.name] = fs[e.name]
        BY <1>1, <1>3 DEF Written
    <2> QED
        BY <1>1, <2>1 DEF Twice
<1> QED
    BY <1>2, <1>3

LEMMA NewIsKept ==
    ASSUME NEW fs \in [Second -> Entry], NEW sp \in [Second -> SUBSET SeqNo], NEW n \in Second,
           NEW f, f.name = n
    PROVE  Kept(f, [fs EXCEPT ![n] = f], Written(sp, n, f.seq))
BY DEF Kept, Written

\* The file of an entry may be removed as that of another one.
LEMMA KeptApart ==
    ASSUME NEW fs \in [Second -> Entry], NEW sp, NEW e \in Entry, NEW r \in Entry,
           e.seq # r.seq, r.at = "file", Kept(e, fs, sp), Kept(r, fs, sp),
           NEW gs \in {fs, [fs EXCEPT ![r.name] = NoEntry]}
    PROVE  Kept(e, gs, sp)
<1> SUFFICES ASSUME e.at = "file"
             PROVE  e.seq \in sp[e.name] /\ (gs[e.name] = e \/ Twice(e, sp))
    BY DEF Kept
<1>1. /\ e.name \in Second /\ e.seq \in sp[e.name] /\ (fs[e.name] = e \/ Twice(e, sp))
      /\ r.seq \in sp[r.name]
    BY DEF Kept, Entry
<1>2. CASE e.name = r.name
    BY <1>1, <1>2 DEF Twice
<1>3. CASE e.name # r.name
    BY <1>1, <1>3
<1> QED
    BY <1>2, <1>3

\* From the moment it is stamped until it is read back, an entry for a file has
\* its file.
KeptInv ==
    /\ \A i \in 1 .. Len(queue) : Kept(queue[i], files, spilled)
    /\ adding.step = "push" => Kept(adding.frame, files, spilled)
    /\ taking.step = "read" => Kept(taking.entry, files, spilled)

\* A file holds the youngest bitmap that was written to it, and the bitmap being
\* added is younger than all that were written.
YoungestInv ==
    /\ \A n \in Second : files[n] # NoEntry => \A s \in spilled[n] : s <= files[n].seq
    /\ \A n \in Second : \A s \in spilled[n] : s <= captured
    /\ adding.step \in {"keep", "spill"} => \A n \in Second : \A s \in spilled[n] : s < adding.frame.seq

\* What is read and what was returned is the entry's own bitmap or a younger one
\* of the same file.
PictureInv ==
    /\ jpeg # NoEntry => taking.step = "read" /\ Shows(jpeg, taking.entry, spilled)
    /\ Len(pictures) = Len(delivered)
    /\ \A i \in 1 .. Len(delivered) : Shows(pictures[i], delivered[i], spilled)

FileInv == KeptInv /\ YoungestInv /\ PictureInv

LEMMA OthersKeepFileInv ==
    ASSUME FileInv, UNCHANGED <<queue, adding, taking, jpeg, files, spilled, captured, delivered, pictures>>
    PROVE  FileInv'
BY DEF FileInv, KeptInv, YoungestInv, PictureInv

LEMMA StartKeepsFileInv ==
    ASSUME TypeOK, FileInv, StartThread
    PROVE  FileInv'
<1>1. CASE ClearOne
    <2>1. /\ queue # <<>> /\ queue' = Tail(queue)
          /\ UNCHANGED <<adding, taking, jpeg, files, spilled, captured, delivered, pictures>>
        BY <1>1 DEF ClearOne, adders, takers, disk
    <2>2. \A j \in 1 .. Len(queue') : \E k \in 1 .. Len(queue) : queue'[j] = queue[k]
        BY <2>1, TailInherits DEF TypeOK
    <2> QED
        BY <2>1, <2>2 DEF FileInv, KeptInv, YoungestInv, PictureInv
<1>2. CASE ~ClearOne
    BY <1>2, OthersKeepFileInv
       DEF StartThread, StartCall, ClearDone, ResetMarks, adders, takers, disk
<1> QED
    BY <1>1, <1>2

\* The bitmap being added is in a file of its own or shares one with older ones.
LEMMA WriteKeepsFileInv ==
    ASSUME TypeOK, OrderInv, FileInv, adding.step = "spill", NEW n \in Second, WriteFile(n),
           adding'.step = "idle" \/ (adding'.step = "push" /\ adding'.frame = Stamp("file", n)),
           UNCHANGED <<queue, taking, jpeg, captured, delivered, pictures>>
    PROVE  FileInv'
<1>1. PICK f \in Entry : /\ f = Stamp("file", n) /\ f.seq = adding.frame.seq
                         /\ f.at = "file" /\ f.name = n
    <2>1. Stamp("file", n) \in Entry /\ adding.frame \in Entry
        BY StampType DEF TypeOK
    <2> QED
        BY <2>1, StampIs
<1>2. /\ files' = [files EXCEPT ![n] = f] /\ spilled' = Written(spilled, n, f.seq)
      /\ files \in [Second -> Entry] /\ spilled \in [Second -> SUBSET SeqNo]
    BY <1>1 DEF WriteFile, Written, TypeOK
<1>3. /\ f.seq \in Nat /\ f.seq <= captured /\ captured \in Nat /\ PipelineBefore(f.seq)
      /\ \A m \in Second : \A s \in spilled[m] : s < f.seq /\ s \in Nat
    <2>1. captured \in Nat /\ f.seq \in Nat
        BY SeqIsNat, BoundsAssumption DEF TypeOK, SeqNo
    <2>2. \A m \in Second : \A s \in spilled[m] : s \in Nat
        BY BoundsAssumption DEF TypeOK, SeqNo
    <2> QED
        BY <1>1, <2>1, <2>2 DEF OrderInv, FileInv, YoungestInv
<1>4. KeptInv'
    <2>1. ASSUME NEW i \in 1 .. Len(queue) PROVE Kept(queue[i], files', spilled')
        <3>1. PICK e \in Entry : e = queue[i]
            BY ElementOfSeq DEF TypeOK
        <3>2. e.seq < f.seq /\ e.seq \in Nat /\ Kept(e, files, spilled)
            BY <1>3, <3>1, SeqIsNat DEF PipelineBefore, AllBefore, FileInv, KeptInv
        <3>3. f.seq # e.seq
            BY <1>3, <3>2
        <3> QED
            BY <1>2, <3>1, <3>2, <3>3, StaysKept
    <2>2. ASSUME taking.step = "read" PROVE Kept(taking.entry, files', spilled')
        <3>1. PICK e \in Entry : e = taking.entry
            BY DEF TypeOK
        <3>2. e.seq < f.seq /\ e.seq \in Nat /\ Kept(e, files, spilled)
            BY <1>3, <2>2, <3>1, SeqIsNat DEF PipelineBefore, FileInv, KeptInv
        <3>3. f.seq # e.seq
            BY <1>3, <3>2
        <3> QED
            BY <1>2, <3>1, <3>2, <3>3, StaysKept
    <2>3. Kept(f, files', spilled')
        BY <1>1, <1>2, NewIsKept
    <2> QED
        BY <1>1, <2>1, <2>2, <2>3 DEF KeptInv
<1>5. YoungestInv'
    <2>1. \A m \in Second : spilled'[m] = IF m = n THEN spilled[m] \cup {f.seq} ELSE spilled[m]
        BY <1>2 DEF Written
    <2>2. \A m \in Second : files'[m] = IF m = n THEN f ELSE files[m]
        BY <1>2
    <2>3. ASSUME NEW m \in Second, files'[m] # NoEntry, NEW s \in spilled'[m]
          PROVE  s <= files'[m].seq
        <3>1. CASE m = n
            <4>1. files'[m].seq = f.seq /\ s \in spilled[m] \cup {f.seq}
                BY <2>1, <2>2, <2>3, <3>1
            <4>2. s = f.seq \/ (s < f.seq /\ s \in Nat)
                BY <1>3, <4>1
            <4> QED
                BY <1>3, <4>1, <4>2
        <3>2. CASE m # n
            BY <2>1, <2>2, <2>3, <3>2 DEF FileInv, YoungestInv
        <3> QED
            BY <3>1, <3>2
    <2>4. ASSUME NEW m \in Second, NEW s \in spilled'[m] PROVE s <= captured'
        BY <1>3, <2>1, <2>4 DEF FileInv, YoungestInv
    <2> QED
        BY <2>3, <2>4 DEF YoungestInv
<1>6. PictureInv'
    <2>1. ASSUME jpeg # NoEntry PROVE taking.step = "read" /\ Shows(jpeg, taking.entry, spilled')
        <3>1. taking.step = "read" /\ Shows(jpeg, taking.entry, spilled)
            BY <2>1 DEF FileInv, PictureInv
        <3>2. taking.entry \in Entry
            BY DEF TypeOK
        <3> QED
            BY <1>2, <3>1, <3>2, StaysShows
    <2>2. ASSUME NEW i \in 1 .. Len(delivered) PROVE Shows(pictures[i], delivered[i], spilled')
        <3>1. delivered[i] \in Entry
            BY ElementOfSeq DEF TypeOK
        <3>2. Shows(pictures[i], delivered[i], spilled)
            BY DEF FileInv, PictureInv
        <3> QED
            BY <1>2, <3>1, <3>2, StaysShows
    <2> QED
        BY <2>1, <2>2 DEF FileInv, PictureInv
<1> QED
    BY <1>4, <1>5, <1>6 DEF FileInv

LEMMA CaptureKeepsFileInv ==
    ASSUME TypeOK, OrderInv, FileInv, CaptureThread
    PROVE  FileInv'
<1>0. /\ adding.frame \in Entry /\ queue \in Seq(Entry) /\ captured \in Nat
      /\ \A m \in Second : \A s \in spilled[m] : s \in Nat
    BY BoundsAssumption DEF TypeOK, SeqNo
<1>1. CASE AddBitmap \/ AddBitmapLowMemory
    <2>1. /\ captured' = captured + 1 /\ adding.step = "idle"
          /\ \/ adding'.step \in {"keep", "spill"} /\ adding'.frame.seq = captured + 1
             \/ adding' = adding
          /\ UNCHANGED <<queue, taking, jpeg, files, spilled, delivered, pictures>>
        BY <1>1 DEF AddBitmap, AddBitmapLowMemory, NoEntry, takers, disk
    <2>2. \A m \in Second : \A s \in spilled[m] : s <= captured + 1 /\ s < captured + 1
        BY <1>0 DEF FileInv, YoungestInv
    <2>3. YoungestInv'
        BY <2>1, <2>2 DEF FileInv, YoungestInv
    <2>4. KeptInv' /\ PictureInv'
        BY <2>1 DEF FileInv, KeptInv, PictureInv
    <2> QED
        BY <2>3, <2>4 DEF FileInv
<1>2. CASE KeepInMemory
    <2>1. /\ adding'.step = "push" /\ adding'.frame.at = "memory"
          /\ UNCHANGED <<queue, taking, jpeg, files, spilled, captured, delivered, pictures>>
        BY <1>0, <1>2, StampIs DEF KeepInMemory, takers, disk
    <2> QED
        BY <2>1 DEF FileInv, KeptInv, Kept, YoungestInv, PictureInv
<1>3. CASE SpillToFile
    <2>1. PICK n \in Second : WriteFile(n) /\ adding' = [step |-> "push", frame |-> Stamp("file", n)]
        BY <1>3 DEF SpillToFile
    <2>2. /\ adding.step = "spill" /\ adding'.step = "push" /\ adding'.frame = Stamp("file", n)
          /\ UNCHANGED <<queue, taking, jpeg, captured, delivered, pictures>>
        BY <1>3, <2>1 DEF SpillToFile, takers
    <2> QED
        BY <2>1, <2>2, WriteKeepsFileInv
<1>4. CASE SpillFails
    <2>1. /\ adding.step = "spill" /\ adding'.step = "idle"
          /\ UNCHANGED <<queue, taking, jpeg, captured, delivered, pictures>>
        BY <1>4 DEF SpillFails, takers
    <2>2. CASE UNCHANGED disk
        BY <2>1, <2>2 DEF disk, FileInv, KeptInv, YoungestInv, PictureInv
    <2>3. CASE ~UNCHANGED disk
        <3>1. PICK n \in Second : WriteFile(n)
            BY <1>4, <2>3 DEF SpillFails
        <3> QED
            BY <2>1, <3>1, WriteKeepsFileInv
    <2> QED
        BY <2>2, <2>3
<1>5. CASE PushEntry
    <2>1. /\ adding.step = "push" /\ adding'.step = "idle" /\ queue' = Append(queue, adding.frame)
          /\ UNCHANGED <<taking, jpeg, files, spilled, captured, delivered, pictures>>
        BY <1>5 DEF PushEntry, takers, disk
    <2>2. \A j \in 1 .. Len(queue') :
             queue'[j] = adding.frame \/ \E k \in 1 .. Len(queue) : queue'[j] = queue[k]
        BY <2>1, <1>0, AppendFacts
    <2> QED
        BY <2>1, <2>2 DEF FileInv, KeptInv, YoungestInv, PictureInv
<1> QED
    BY <1>1, <1>2, <1>3, <1>4, <1>5 DEF CaptureThread

\* A bitmap is returned for an entry.
LEMMA DeliverKeepsPictures ==
    ASSUME TypeOK, NEW e \in Entry, NEW p \in Entry, Shows(p, e, spilled), PictureInv,
           delivered' = Append(delivered, e), pictures' = Append(pictures, p),
           UNCHANGED spilled, jpeg' = NoEntry
    PROVE  PictureInv'
<1>1. /\ Len(delivered) \in Nat /\ Len(delivered') = Len(delivered) + 1
      /\ delivered'[Len(delivered) + 1] = e
      /\ \A i \in 1 .. Len(delivered) : delivered'[i] = delivered[i]
    BY AppendFacts DEF TypeOK
<1>2. /\ Len(pictures') = Len(pictures) + 1
      /\ pictures'[Len(pictures) + 1] = p
      /\ \A i \in 1 .. Len(pictures) : pictures'[i] = pictures[i]
    BY AppendFacts DEF TypeOK
<1>3. ASSUME NEW i \in 1 .. Len(delivered') PROVE Shows(pictures'[i], delivered'[i], spilled)
    <2>1. CASE i \in 1 .. Len(delivered)
        <3>1. pictures'[i] = pictures[i] /\ delivered'[i] = delivered[i]
            BY <1>1, <1>2, <2>1 DEF PictureInv
        <3> QED
            BY <2>1, <3>1 DEF PictureInv
    <2>2. CASE i = Len(delivered) + 1
        <3>1. pictures'[i] = p /\ delivered'[i] = e
            BY <1>1, <1>2, <2>2 DEF PictureInv
        <3> QED
            BY <3>1
    <2>3. i \in 1 .. Len(delivered) \/ i = Len(delivered) + 1
        BY <1>1
    <2> QED
        BY <2>1, <2>2, <2>3
<1> QED
    BY <1>1, <1>2, <1>3 DEF PictureInv

LEMMA EncoderKeepsFileInv ==
    ASSUME TypeOK, OrderInv, FileInv, EncoderThread
    PROVE  FileInv'
<1>0. /\ queue \in Seq(Entry) /\ taking.entry \in Entry /\ jpeg \in Entry
      /\ files \in [Second -> Entry] /\ spilled \in [Second -> SUBSET SeqNo]
    BY DEF TypeOK
<1>a. UNCHANGED <<adding, captured, spilled>>
    BY DEF EncoderThread, SetAudioSync, PeekBitmap, PopNothing, PopFromMemory, PopFromFile,
           ReadFile, ReturnBitmap, ReadFileFails, adders, disk
<1>1. CASE SetAudioSync
    BY <1>1, OthersKeepFileInv DEF SetAudioSync, adders, takers, disk
<1>2. CASE PeekBitmap \/ PopNothing
    <2>1. /\ taking.step # "read" /\ taking'.step # "read"
          /\ UNCHANGED <<queue, jpeg, files, delivered, pictures>>
        BY <1>2 DEF PeekBitmap, PopNothing, TypeOK, disk
    <2> QED
        BY <1>a, <2>1 DEF FileInv, KeptInv, YoungestInv, PictureInv
<1>3. CASE PopFromMemory
    <2>1. /\ queue # <<>> /\ queue' = Tail(queue) /\ taking.step # "read" /\ taking'.step # "read"
          /\ delivered' = Append(delivered, Head(queue)) /\ pictures' = Append(pictures, Head(queue))
          /\ UNCHANGED <<jpeg, files>>
        BY <1>3 DEF PopFromMemory, disk
    <2>2. /\ \A j \in 1 .. Len(queue') : \E k \in 1 .. Len(queue) : queue'[j] = queue[k]
          /\ Head(queue) \in Entry
        BY <1>0, <2>1, TailInherits, TailFacts
    <2>3. KeptInv' /\ YoungestInv'
        BY <1>a, <2>1, <2>2 DEF FileInv, KeptInv, YoungestInv
    <2>4. jpeg = NoEntry
        BY <2>1 DEF FileInv, PictureInv
    <2>5. PictureInv'
        BY <1>a, <2>1, <2>2, <2>4, DeliverKeepsPictures DEF FileInv, Shows
    <2> QED
        BY <2>3, <2>5 DEF FileInv
<1>4. CASE PopFromFile
    <2>1. /\ queue # <<>> /\ queue' = Tail(queue) /\ taking'.entry = Head(queue)
          /\ taking.step # "read" /\ taking'.step = "read"
          /\ UNCHANGED <<jpeg, files, delivered, pictures>>
        BY <1>4 DEF PopFromFile, disk
    <2>2. /\ \A j \in 1 .. Len(queue') : \E k \in 1 .. Len(queue) : queue'[j] = queue[k]
          /\ \E k \in 1 .. Len(queue) : Head(queue) = queue[k]
        BY <1>0, <2>1, TailInherits
    <2> QED
        BY <1>a, <2>1, <2>2 DEF FileInv, KeptInv, YoungestInv, PictureInv
<1>5. CASE ReadFile
    <2>1. /\ taking.step = "read" /\ files[taking.entry.name] # NoEntry
          /\ jpeg' = files[taking.entry.name]
          /\ UNCHANGED <<queue, files, taking, delivered, pictures>>
        BY <1>5 DEF ReadFile, disk
    <2>2. taking.entry.at = "file" /\ taking.entry.name \in Second
        BY <2>1 DEF TypeOK, Entry
    <2>3. taking.entry.seq \in spilled[taking.entry.name]
          /\ (jpeg' = taking.entry \/ Twice(taking.entry, spilled))
        BY <2>1, <2>2 DEF FileInv, KeptInv, Kept
    <2>4. taking.entry.seq <= jpeg'.seq
        BY <2>1, <2>2, <2>3 DEF FileInv, YoungestInv
    <2>5. jpeg'.seq >= taking.entry.seq
        <3>1. jpeg' \in Entry
            BY <1>0, <2>1, <2>2
        <3> QED
            BY <1>0, <2>4, <3>1, SeqIsNat
    <2>6. PictureInv'
        BY <1>a, <2>1, <2>3, <2>5 DEF FileInv, PictureInv, Shows
    <2> QED
        BY <1>a, <2>1, <2>6 DEF FileInv, KeptInv, YoungestInv
<1>6. CASE ReturnBitmap \/ ReadFileFails
    <2>1. /\ taking.step = "read" /\ taking'.step # "read" /\ jpeg' = NoEntry /\ UNCHANGED queue
          /\ files' \in {files, [files EXCEPT ![taking.entry.name] = NoEntry]}
        BY <1>6 DEF ReturnBitmap, ReadFileFails, RemoveFile
    <2>2. PICK r \in Entry : r = taking.entry /\ r.at = "file" /\ r.name \in Second
        BY <1>0, <2>1 DEF TypeOK, Entry
    <2>3. Kept(r, files, spilled) /\ files' \in {files, [files EXCEPT ![r.name] = NoEntry]}
        BY <2>1, <2>2 DEF FileInv, KeptInv
    <2>4. ASSUME NEW i \in 1 .. Len(queue) PROVE Kept(queue[i], files', spilled)
        <3>1. PICK e \in Entry : e = queue[i]
            BY <1>0, ElementOfSeq
        <3>2. r.seq < e.seq
            BY <2>1, <2>2, <3>1 DEF OrderInv
        <3>3. e.seq # r.seq /\ Kept(e, files, spilled)
            BY <3>1, <3>2, SeqIsNat DEF FileInv, KeptInv
        <3> QED
            BY <1>0, <2>2, <2>3, <3>1, <3>3, KeptApart
    <2>5. ASSUME adding.step = "push" PROVE Kept(adding.frame, files', spilled)
        <3>1. PICK e \in Entry : e = adding.frame
            BY DEF TypeOK
        <3>2. r.seq < e.seq
            BY <2>1, <2>2, <2>5, <3>1 DEF OrderInv, PipelineBefore
        <3>3. e.seq # r.seq /\ Kept(e, files, spilled)
            BY <2>5, <3>1, <3>2, SeqIsNat DEF FileInv, KeptInv
        <3> QED
            BY <1>0, <2>2, <2>3, <3>1, <3>3, KeptApart
    <2>6. KeptInv'
        BY <1>a, <2>1, <2>4, <2>5 DEF KeptInv
    <2>7. \A n \in Second : files'[n] = files[n] \/ files'[n] = NoEntry
        BY <1>0, <2>2, <2>3
    <2>8. YoungestInv'
        BY <1>a, <2>7 DEF FileInv, YoungestInv
    <2>9. PictureInv'
        <3>1. CASE ReturnBitmap
            <4>1. /\ jpeg # NoEntry /\ delivered' = Append(delivered, taking.entry)
                  /\ pictures' = Append(pictures, jpeg)
                BY <3>1 DEF ReturnBitmap
            <4>2. Shows(jpeg, taking.entry, spilled)
                BY <4>1 DEF FileInv, PictureInv
            <4> QED
                BY <1>0, <1>a, <2>1, <4>1, <4>2, DeliverKeepsPictures DEF FileInv
        <3>2. CASE ReadFileFails
            BY <1>a, <2>1, <3>2 DEF ReadFileFails, FileInv, PictureInv
        <3> QED
            BY <1>6, <3>1, <3>2
    <2> QED
        BY <2>6, <2>8, <2>9 DEF FileInv
<1> QED
    BY <1>1, <1>2, <1>3, <1>4, <1>5, <1>6 DEF EncoderThread

LEMMA NextKeepsFileInv == OrderInv /\ FileInv /\ [Next]_vars => FileInv'
<1> SUFFICES ASSUME OrderInv, FileInv, [Next]_vars PROVE FileInv'
    OBVIOUS
<1>1. TypeOK
    BY DEF OrderInv
<1>2. CASE AudioThread \/ UNCHANGED vars
    BY <1>2, OthersKeepFileInv
       DEF AudioThread, CapturePacket, SetAudioMark, adders, takers, disk, vars
<1> QED
    BY <1>1, <1>2, StartKeepsFileInv, CaptureKeepsFileInv, EncoderKeepsFileInv DEF Next

LEMMA InitFileInv == Init => FileInv
<1> SUFFICES ASSUME Init PROVE FileInv
    OBVIOUS
<1>1. /\ Len(queue) = 0 /\ Len(delivered) = 0 /\ Len(pictures) = 0
      /\ adding.step = "idle" /\ taking.step = "idle" /\ jpeg = NoEntry
      /\ \A n \in Second : spilled[n] = {}
    BY EmptySeq DEF Init
<1> QED
    BY <1>1 DEF FileInv, KeptInv, YoungestInv, PictureInv

\* Whichever thread runs when, the encoder gets the bitmaps in the order they were
\* captured and none twice, however many of them went through files.  The one
\* exception is what the names of the files allow: a bitmap read from a file that
\* another one was written to.
THEOREM DeliveredInOrder == Spec => []InOrder
<1>1. OrderInv /\ FileInv => InOrder
    <2> SUFFICES ASSUME OrderInv, FileInv, NEW i \in DOMAIN pictures, NEW j \in DOMAIN pictures, i < j
                 PROVE  pictures[i].seq < pictures[j].seq \/ Shared(delivered[i])
        BY DEF InOrder
    <2>1. i \in 1 .. Len(delivered) /\ j \in 1 .. Len(delivered)
        BY LenProperties DEF OrderInv, TypeOK, FileInv, PictureInv
    <2>2. /\ pictures[i] = delivered[i] \/ Shared(delivered[i])
          /\ pictures[j] = delivered[j] \/ pictures[j].seq >= delivered[j].seq
        BY <2>1 DEF FileInv, PictureInv, Shows, Twice, Shared
    <2>3. delivered[i].seq < delivered[j].seq
        BY <2>1 DEF OrderInv, Ascending
    <2>4. delivered[i].seq \in Nat /\ delivered[j].seq \in Nat /\ pictures[j].seq \in Nat
        BY <2>1, ElementOfSeq, SeqIsNat DEF OrderInv, TypeOK, FileInv, PictureInv
    <2> QED
        BY <2>2, <2>3, <2>4
<1> QED
    BY InitOrderInv, NextKeepsOrderInv, InitFileInv, NextKeepsFileInv, <1>1, TypeCorrect, PTL DEF Spec

\* As long as the queue is started once, no bitmap reaches the encoder before
\* the audio packet it is stamped with, however front(), pop(), the stamping
\* and the pushing interleave; the exception is again a file of two bitmaps.
THEOREM AudioDrawnFirst == Spec => []AudioFirst
<1>1. AudioInv /\ FileInv => AudioFirst
    <2> SUFFICES ASSUME AudioInv, FileInv, starts <= 1, NEW i \in DOMAIN pictures
                 PROVE  pictures[i].tag <= audio_sync \/ Shared(delivered[i])
        BY DEF AudioFirst
    <2>1. i \in 1 .. Len(delivered)
        BY LenProperties DEF AudioInv, TypeOK, FileInv, PictureInv
    <2>2. pictures[i] = delivered[i] \/ Shared(delivered[i])
        BY <2>1 DEF FileInv, PictureInv, Shows, Twice, Shared
    <2>3. delivered[i].tag <= audio_sync
        BY <2>1 DEF AudioInv, SyncInv, AllDue
    <2> QED
        BY <2>2, <2>3
<1> QED
    BY InitOrderInv, NextKeepsOrderInv, InitFileInv, NextKeepsFileInv, InitAudioInv, NextKeepsAudioInv,
       <1>1, TypeCorrect, PTL DEF Spec

\* Every bitmap that was captured is in exactly one place, with its entry, and
\* every entry for a file has its file with its own bitmap in it until it is read,
\* unless two bitmaps were written to that file.
THEOREM NoneVanishes == Spec => []Conservation
<1>1. OrderInv /\ PlaceInv /\ FileInv => Conservation
    <2> SUFFICES ASSUME OrderInv, PlaceInv, FileInv PROVE Conservation
        OBVIOUS
    <2>1. \A s \in 1 .. captured : OncePlaced(s)
        BY InOnePlace
    <2>2. /\ \A i \in DOMAIN queue : HasFile(queue[i])
          /\ adding.step = "push" => HasFile(adding.frame)
          /\ taking.step = "read" => HasFile(taking.entry)
        BY LenProperties DEF OrderInv, TypeOK, FileInv, KeptInv, Kept, Twice, HasFile, Shared
    <2> QED
        BY <2>1, <2>2 DEF Conservation
<1> QED
    BY InitOrderInv, InitPlaces, InitFileInv, NextKeepsOrderInv, NextKeepsPlaces, NextKeepsFileInv,
       <1>1, TypeCorrect, PTL DEF Spec
-------------------------------------------------------------------------------
(* The queue promises what FrameQueue says                                 *)

BareOf(e) == [seq |-> e.seq, tag |-> e.tag]
Bare == [seq : SeqNo, tag : Mark]

LEMMA BareKeeps == \A e : BareOf(e).seq = e.seq /\ BareOf(e).tag = e.tag
BY DEF BareOf

LEMMA NoPlaceIs ==
    ASSUME NEW s \in Seq(Entry)
    PROVE  /\ NoPlace(s) \in Seq(Bare) /\ Len(NoPlace(s)) = Len(s)
           /\ \A i \in 1 .. Len(s) : NoPlace(s)[i] = BareOf(s[i])
<1>1. \A i \in 1 .. Len(s) : BareOf(s[i]) \in Bare
    <2>1. \A e \in Entry : BareOf(e) \in Bare
        BY DEF BareOf, Bare, Entry
    <2> QED
        BY <2>1, ElementOfSeq
<1>2. NoPlace(s) = [i \in 1 .. Len(s) |-> BareOf(s[i])] /\ Len(s) \in Nat
    BY LenProperties DEF NoPlace, BareOf
<1> HIDE DEF BareOf, Bare
<1> QED
    BY <1>1, <1>2

LEMMA NoPlacePush ==
    ASSUME NEW s \in Seq(Entry), NEW e \in Entry
    PROVE  NoPlace(Append(s, e)) = Append(NoPlace(s), BareOf(e))
<1>1. PICK t \in Seq(Entry) : /\ t = Append(s, e) /\ Len(s) \in Nat /\ Len(t) = Len(s) + 1
                              /\ t[Len(s) + 1] = e /\ \A i \in 1 .. Len(s) : t[i] = s[i]
    <2>1. /\ Append(s, e) \in Seq(Entry) /\ Len(s) \in Nat
          /\ Len(Append(s, e)) = Len(s) + 1
          /\ Append(s, e)[Len(s) + 1] = e
          /\ \A i \in 1 .. Len(s) : Append(s, e)[i] = s[i]
        BY AppendFacts
    <2> QED
        BY <2>1
<1>2. /\ NoPlace(t) \in Seq(Bare) /\ Len(NoPlace(t)) = Len(s) + 1
      /\ \A i \in 1 .. Len(s) + 1 : NoPlace(t)[i] = BareOf(t[i])
    BY <1>1, NoPlaceIs
<1>3. PICK u \in Seq(Bare) : /\ u = NoPlace(s) /\ Len(u) = Len(s)
                             /\ \A i \in 1 .. Len(s) : u[i] = BareOf(s[i])
    <2>1. /\ NoPlace(s) \in Seq(Bare) /\ Len(NoPlace(s)) = Len(s)
          /\ \A i \in 1 .. Len(s) : NoPlace(s)[i] = BareOf(s[i])
        BY NoPlaceIs
    <2> QED
        BY <2>1
<1>4. BareOf(e) \in Bare
    BY DEF BareOf, Bare, Entry
<1>5. /\ Append(u, BareOf(e)) \in Seq(Bare) /\ Len(Append(u, BareOf(e))) = Len(s) + 1
      /\ Append(u, BareOf(e))[Len(s) + 1] = BareOf(e)
      /\ \A i \in 1 .. Len(s) : Append(u, BareOf(e))[i] = u[i]
    BY <1>3, <1>4, AppendProperties
<1>6. \A i \in 1 .. Len(s) + 1 : i \in 1 .. Len(s) \/ i = Len(s) + 1
    BY <1>1, LastOrBefore
<1>7. \A i \in 1 .. Len(s) + 1 : NoPlace(t)[i] = Append(u, BareOf(e))[i]
    BY <1>1, <1>2, <1>3, <1>5, <1>6
<1>8. NoPlace(t) = Append(u, BareOf(e))
    BY <1>2, <1>5, <1>7, SeqEqual
<1> QED
    BY <1>1, <1>3, <1>8

LEMMA NoPlacePop ==
    ASSUME NEW s \in Seq(Entry), s # <<>>
    PROVE  /\ NoPlace(s) # <<>> /\ Head(NoPlace(s)) = BareOf(Head(s))
           /\ NoPlace(Tail(s)) = Tail(NoPlace(s))
<1>1. PICK t \in Seq(Entry) :
          /\ t = Tail(s) /\ Head(s) = s[1] /\ Len(s) \in Nat \ {0} /\ Len(t) = Len(s) - 1
          /\ \A i \in 1 .. Len(t) : i + 1 \in 1 .. Len(s) /\ t[i] = s[i + 1]
    BY TailFacts
<1>2. PICK u \in Seq(Bare) : /\ u = NoPlace(s) /\ Len(u) = Len(s)
                             /\ \A i \in 1 .. Len(s) : u[i] = BareOf(s[i])
    <2>1. /\ NoPlace(s) \in Seq(Bare) /\ Len(NoPlace(s)) = Len(s)
          /\ \A i \in 1 .. Len(s) : NoPlace(s)[i] = BareOf(s[i])
        BY NoPlaceIs
    <2> QED
        BY <2>1
<1>3. u # <<>>
    BY <1>1, <1>2
<1>4. /\ Tail(u) \in Seq(Bare) /\ Head(u) = u[1] /\ Len(Tail(u)) = Len(s) - 1
      /\ \A i \in 1 .. Len(s) - 1 : Tail(u)[i] = u[i + 1]
    BY <1>2, <1>3, TailFacts
<1>5. /\ NoPlace(t) \in Seq(Bare) /\ Len(NoPlace(t)) = Len(s) - 1
      /\ \A i \in 1 .. Len(s) - 1 : NoPlace(t)[i] = BareOf(t[i])
    BY <1>1, NoPlaceIs
<1>6. \A i \in 1 .. Len(s) - 1 : NoPlace(t)[i] = Tail(u)[i]
    BY <1>1, <1>2, <1>4, <1>5
<1>7. NoPlace(t) = Tail(u)
    BY <1>4, <1>5, <1>6, SeqEqual
<1>8. Head(u) = BareOf(Head(s))
    BY <1>1, <1>2, <1>4
<1> QED
    BY <1>1, <1>2, <1>3, <1>7, <1>8

LEMMA Prefixed ==
    ASSUME NEW e \in Entry, NEW q \in Seq(Entry)
    PROVE  /\ <<e>> \o q \in Seq(Entry) /\ <<e>> \o q # <<>>
           /\ Head(<<e>> \o q) = e /\ Tail(<<e>> \o q) = q
<1>1. PICK p \in Seq(Entry) : p = <<e>> /\ Len(p) = 1 /\ p[1] = e
    <2>1. <<e>> \in Seq(Entry) /\ Len(<<e>>) = 1 /\ <<e>>[1] = e
        OBVIOUS
    <2> QED
        BY <2>1
<1>2. PICK s \in Seq(Entry) :
          /\ s = p \o q /\ Len(s) = 1 + Len(q)
          /\ \A i \in 1 .. 1 + Len(q) : s[i] = IF i <= 1 THEN p[i] ELSE q[i - 1]
    <2>1. /\ p \o q \in Seq(Entry) /\ Len(p \o q) = Len(p) + Len(q)
          /\ \A i \in 1 .. Len(p) + Len(q) :
                (p \o q)[i] = IF i <= Len(p) THEN p[i] ELSE q[i - Len(p)]
        BY ConcatProperties
    <2> QED
        BY <1>1, <2>1
<1>3. Len(q) \in Nat /\ s # <<>>
    BY <1>2, LenProperties, EmptySeq
<1>4. Head(s) = e
    BY <1>1, <1>2, <1>3, TailFacts
<1>5. /\ Tail(s) \in Seq(Entry) /\ Len(Tail(s)) = Len(q)
      /\ \A i \in 1 .. Len(q) : Tail(s)[i] = s[i + 1]
    BY <1>2, <1>3, TailFacts
<1>6. \A i \in 1 .. Len(q) : i + 1 \in 1 .. 1 + Len(q) /\ ~(i + 1 <= 1) /\ (i + 1) - 1 = i
    BY <1>3
<1>7. \A i \in 1 .. Len(q) : Tail(s)[i] = q[i]
    BY <1>2, <1>5, <1>6
<1>8. Tail(s) = q
    BY <1>5, <1>7, SeqEqual
<1> QED
    BY <1>1, <1>2, <1>3, <1>4, <1>8

LEMMA HeadAndTail ==
    ASSUME NEW q \in Seq(Entry), q # <<>>
    PROVE  <<Head(q)>> \o Tail(q) = q
<1>1. Head(q) \in Entry /\ Tail(q) \in Seq(Entry) /\ Len(q) \in Nat \ {0}
    BY TailFacts
<1>2. PICK t \in Seq(Entry) : t = <<Head(q)>> \o Tail(q) /\ t # <<>>
                              /\ Head(t) = Head(q) /\ Tail(t) = Tail(q)
    BY <1>1, Prefixed
<1>3. /\ Head(q) = q[1] /\ Len(Tail(q)) = Len(q) - 1
      /\ \A i \in 1 .. Len(q) - 1 : Tail(q)[i] = q[i + 1]
    BY TailFacts
<1>4. /\ Head(t) = t[1] /\ Len(t) \in Nat \ {0} /\ Len(Tail(t)) = Len(t) - 1
      /\ \A i \in 1 .. Len(t) - 1 : Tail(t)[i] = t[i + 1]
    BY <1>2, TailFacts
<1>5. Len(t) = Len(q)
    BY <1>1, <1>2, <1>3, <1>4
<1>6. \A i \in 2 .. Len(q) : i - 1 \in 1 .. Len(q) - 1 /\ (i - 1) + 1 = i
    BY <1>1
<1>7. \A i \in 2 .. Len(q) : t[i] = q[i]
    BY <1>2, <1>3, <1>4, <1>5, <1>6
<1>8. \A i \in 1 .. Len(t) : t[i] = q[i]
    BY <1>1, <1>2, <1>3, <1>4, <1>5, <1>7
<1>9. t = q
    BY <1>5, <1>8, SeqEqual
<1> QED
    BY <1>2, <1>9

LEMMA PrefixedPush ==
    ASSUME NEW p \in Seq(Entry), NEW q \in Seq(Entry), NEW e \in Entry
    PROVE  p \o Append(q, e) = Append(p \o q, e)
<1>1. <<e>> \in Seq(Entry) /\ p \o q \in Seq(Entry)
    BY ConcatProperties
<1>2. Append(q, e) = q \o <<e>> /\ Append(p \o q, e) = (p \o q) \o <<e>>
    BY <1>1, AppendIsConcat
<1>3. (p \o q) \o <<e>> = p \o (q \o <<e>>)
    BY <1>1, ConcatAssociative
<1> QED
    BY <1>2, <1>3

\* Until a second start(): no call of the other threads is under way before the
\* queue is open, the mark follows the audio, and the tags on the way follow the
\* mark.
TagsUpTo(n) ==
    /\ \A i \in 1 .. Len(delivered) : delivered[i].tag <= n
    /\ taking.step = "read" => taking.entry.tag <= n
    /\ \A i \in 1 .. Len(queue) : queue[i].tag <= n

OpenInv ==
    /\ starting # "idle" => starts # 0
    /\ adding.step # "idle" => adding.frame.seq >= 1
    /\ starts <= 1 =>
          /\ ~Started => queue = <<>> /\ adding.step = "idle" /\ taking.step = "idle"
          /\ audio_mark <= index /\ (marking = "mark" => audio_mark < index)
          /\ TagsUpTo(audio_mark)
          /\ adding.step = "push" => adding.frame.tag <= audio_mark /\ TagsUpTo(adding.frame.tag)

LEMMA TagIsInt == \A e \in Entry : e.tag \in Int
BY BoundsAssumption DEF Entry, Mark

LEMMA MarksAreInt ==
    ASSUME TypeOK
    PROVE  /\ audio_mark \in Int /\ audio_sync \in Int /\ index \in Nat /\ starts \in Nat
           /\ captured \in Nat /\ adding.frame \in Entry /\ taking.entry \in Entry
           /\ adding.frame.tag \in Int /\ taking.entry.tag \in Int
           /\ \A i \in 1 .. Len(queue) : queue[i] \in Entry /\ queue[i].tag \in Int
           /\ \A i \in 1 .. Len(delivered) : delivered[i] \in Entry /\ delivered[i].tag \in Int
<1>1. /\ audio_mark \in Int /\ audio_sync \in Int /\ index \in Nat /\ starts \in Nat
      /\ captured \in Nat /\ adding.frame \in Entry /\ taking.entry \in Entry
    BY BoundsAssumption DEF TypeOK, Mark, SeqNo
<1>2. /\ \A i \in 1 .. Len(queue) : queue[i] \in Entry
      /\ \A i \in 1 .. Len(delivered) : delivered[i] \in Entry
    BY ElementOfSeq DEF TypeOK
<1> QED
    BY <1>1, <1>2, TagIsInt

\* Tags that were in the pipeline before are within the same limit after.
LEMMA TagsStay ==
    ASSUME NEW n, TagsUpTo(n), UNCHANGED <<queue, delivered>>,
           taking' = taking \/ taking'.step # "read"
    PROVE  TagsUpTo(n)'
BY DEF TagsUpTo

LEMMA TagsBelow ==
    ASSUME TypeOK, NEW m \in Int, NEW n \in Int, m <= n, TagsUpTo(m)
    PROVE  TagsUpTo(n)
BY MarksAreInt DEF TagsUpTo

LEMMA StartKeepsOpenInv ==
    ASSUME TypeOK, SyncInv, OpenInv, StartThread
    PROVE  OpenInv'
<1> USE MarksAreInt DEF adders, takers, disk, starters, marks, capture
<1>1. CASE StartCall
    <2>1. /\ starting = "idle" /\ starts' = starts + 1 /\ starting' = "clear" /\ index' = 0
          /\ UNCHANGED <<queue, audio_sync, audio_mark, adding, taking, delivered, marking>>
        BY <1>1 DEF StartCall
    <2>2. starts' <= 1 => starts = 0 /\ index = 0 /\ ~Started
        BY <2>1 DEF SyncInv, Started
    <2> QED
        BY <2>1, <2>2 DEF OpenInv, TagsUpTo
<1>2. CASE ClearOne
    <2>1. /\ starting # "idle" /\ queue # <<>>
          /\ UNCHANGED <<starting, starts, adding>>
        BY <1>2 DEF ClearOne
    <2>2. ~(starts <= 1)
        BY <2>1 DEF OpenInv, Started
    <2> QED
        BY <2>1, <2>2 DEF OpenInv
<1>3. CASE ClearDone
    <2>1. /\ starting # "idle" /\ starting' # "idle"
          /\ UNCHANGED <<queue, audio_mark, adding, taking, delivered, starts, index, marking>>
        BY <1>3 DEF ClearDone
    <2>2. Started' = Started
        BY <2>1 DEF Started
    <2> QED
        BY <2>1, <2>2 DEF OpenInv, TagsUpTo
<1>4. CASE ResetMarks
    <2>1. /\ starting # "idle" /\ starting' = "idle" /\ audio_mark' = -1
          /\ UNCHANGED <<queue, adding, taking, delivered, starts, index, marking>>
        BY <1>4 DEF ResetMarks
    <2>2. starts <= 1 => /\ queue = <<>> /\ adding.step = "idle" /\ taking.step = "idle"
                         /\ delivered = <<>> /\ Started'
        BY <2>1 DEF OpenInv, SyncInv, Started
    <2>3. starts <= 1 => TagsUpTo(audio_mark)'
        BY <2>1, <2>2, EmptySeq DEF TagsUpTo
    <2> QED
        BY <2>1, <2>2, <2>3 DEF OpenInv
<1> QED
    BY <1>1, <1>2, <1>3, <1>4 DEF StartThread

LEMMA AudioKeepsOpenInv ==
    ASSUME TypeOK, OpenInv, AudioThread
    PROVE  OpenInv'
<1> USE MarksAreInt DEF adders, takers, disk, starters, marks, capture
<1>1. /\ UNCHANGED <<queue, adding, taking, delivered, starting, starts>>
      /\ \/ index' = index + 1 /\ UNCHANGED audio_mark
         \/ audio_mark' = index /\ UNCHANGED index /\ marking' = "idle"
    BY DEF AudioThread, CapturePacket, SetAudioMark
<1>2. starts <= 1 => audio_mark <= audio_mark' /\ audio_mark' \in Int
    BY <1>1 DEF OpenInv
<1>3. starts <= 1 => TagsUpTo(audio_mark')
    BY <1>2, TagsBelow DEF OpenInv
<1>4. Started' = Started
    BY <1>1 DEF Started
<1>5. starts <= 1 /\ adding.step = "push" => adding.frame.tag <= audio_mark'
    BY <1>2 DEF OpenInv
<1>6. starts <= 1 => audio_mark' <= index' /\ (marking' = "mark" => audio_mark' < index')
    BY <1>1 DEF OpenInv
<1> QED
    BY <1>1, <1>3, <1>4, <1>5, <1>6 DEF OpenInv, TagsUpTo

LEMMA CaptureKeepsOpenInv ==
    ASSUME TypeOK, OpenInv, CaptureThread
    PROVE  OpenInv'
<1> USE MarksAreInt DEF adders, takers, disk, starters, marks, capture
<1>a. /\ UNCHANGED <<audio_mark, taking, delivered, starting, starts, index, marking>>
      /\ Started' = Started
    BY DEF CaptureThread, AddBitmap, AddBitmapLowMemory, KeepInMemory, SpillToFile, SpillFails,
           PushEntry, Started
<1>1. CASE AddBitmap
    <2>1. /\ Started /\ UNCHANGED queue /\ adding'.step \in {"keep", "spill"}
          /\ adding'.frame = [NoEntry EXCEPT !.seq = captured + 1]
        BY <1>1 DEF AddBitmap
    <2>2. adding'.frame.seq >= 1
        BY <2>1 DEF NoEntry
    <2>3. Started' /\ adding'.step # "idle" /\ adding'.step # "push"
        BY <1>a, <2>1
    <2> QED
        BY <1>a, <2>1, <2>2, <2>3 DEF OpenInv, TagsUpTo
<1>2. CASE AddBitmapLowMemory
    BY <1>a, <1>2 DEF AddBitmapLowMemory, OpenInv, TagsUpTo
<1>3. CASE KeepInMemory \/ SpillToFile
    <2>1. /\ adding.step # "idle" /\ UNCHANGED queue
          /\ adding'.step = "push"
          /\ \E place, n : adding'.frame = Stamp(place, n)
        BY <1>3 DEF KeepInMemory, SpillToFile
    <2>2. adding'.frame.tag = audio_mark /\ adding'.frame.seq = adding.frame.seq
        BY <2>1, StampIs
    <2>3. starts <= 1 => Started'
        BY <1>a, <2>1 DEF OpenInv
    <2> QED
        BY <1>a, <2>1, <2>2, <2>3 DEF OpenInv, TagsUpTo
<1>4. CASE SpillFails
    BY <1>a, <1>4 DEF SpillFails, OpenInv, TagsUpTo
<1>5. CASE PushEntry
    <2>1. /\ adding.step = "push" /\ adding'.step = "idle" /\ queue' = Append(queue, adding.frame)
          /\ queue \in Seq(Entry)
        BY <1>5 DEF PushEntry, TypeOK
    <2>2. /\ Len(queue) \in Nat /\ Len(queue') = Len(queue) + 1
          /\ queue'[Len(queue) + 1] = adding.frame
          /\ \A i \in 1 .. Len(queue) : queue'[i] = queue[i]
        BY <2>1, AppendFacts
    <2>3. starts <= 1 => TagsUpTo(audio_mark)'
        BY <1>a, <2>1, <2>2 DEF OpenInv, TagsUpTo
    <2>4. starts <= 1 => Started
        BY <2>1 DEF OpenInv
    <2> QED
        BY <1>a, <2>1, <2>3, <2>4 DEF OpenInv
<1> QED
    BY <1>1, <1>2, <1>3, <1>4, <1>5 DEF CaptureThread

LEMMA EncoderKeepsOpenInv ==
    ASSUME TypeOK, SyncInv, OpenInv, EncoderThread
    PROVE  OpenInv'
<1> USE MarksAreInt DEF adders, takers, disk, starters, marks, capture
<1>a. /\ UNCHANGED <<audio_mark, adding, starting, starts, index, marking>>
      /\ Started' = Started /\ queue \in Seq(Entry) /\ delivered \in Seq(Entry)
    BY DEF EncoderThread, SetAudioSync, PeekBitmap, PopNothing, PopFromMemory, PopFromFile,
           ReadFile, ReturnBitmap, ReadFileFails, Started, TypeOK
<1>b. starts <= 1 => Started
    <2>1. Started \/ taking.step # "idle"
        BY DEF EncoderThread, SetAudioSync, PeekBitmap, PopNothing, PopFromMemory, PopFromFile,
               ReadFile, ReturnBitmap, ReadFileFails
    <2> QED
        BY <2>1 DEF OpenInv
<1>c. SUFFICES ASSUME NEW n \in Int, TagsUpTo(n) PROVE TagsUpTo(n)'
    <2>1. starts <= 1 => TagsUpTo(audio_mark)'
        BY <1>a, <1>c DEF OpenInv, TagsUpTo
    <2>2. starts <= 1 /\ adding.step = "push" => TagsUpTo(adding.frame.tag)'
        BY <1>a, <1>c DEF OpenInv, TagsUpTo
    <2> QED
        BY <1>a, <1>b, <2>1, <2>2 DEF OpenInv
<1>1. CASE SetAudioSync \/ ReadFile
    BY <1>1, <1>c DEF SetAudioSync, ReadFile, TagsUpTo
<1>2. CASE PeekBitmap \/ PopNothing \/ ReadFileFails
    <2>1. taking'.step # "read" /\ UNCHANGED <<queue, delivered>>
        BY <1>2 DEF PeekBitmap, PopNothing, ReadFileFails, TypeOK
    <2> QED
        BY <1>c, <2>1, TagsStay
<1>3. CASE PopFromMemory
    <2>1. /\ queue # <<>> /\ queue' = Tail(queue) /\ delivered' = Append(delivered, Head(queue))
          /\ taking'.step # "read"
        BY <1>3 DEF PopFromMemory
    <2>2. /\ \A j \in 1 .. Len(queue') : \E k \in 1 .. Len(queue) : queue'[j] = queue[k]
          /\ \E k \in 1 .. Len(queue) : Head(queue) = queue[k]
          /\ Head(queue) \in Entry
        BY <1>a, <2>1, TailInherits, TailFacts
    <2>3. /\ Len(delivered) \in Nat /\ Len(delivered') = Len(delivered) + 1
          /\ delivered'[Len(delivered) + 1] = Head(queue)
          /\ \A i \in 1 .. Len(delivered) : delivered'[i] = delivered[i]
        BY <1>a, <2>1, <2>2, AppendFacts
    <2>4. \A i \in 1 .. Len(delivered') : i \in 1 .. Len(delivered) \/ i = Len(delivered) + 1
        <3>1. Len(delivered) \in Nat /\ Len(delivered') = Len(delivered) + 1
            BY <2>3
        <3> QED
            BY <3>1, LastOrBefore
    <2>5. Head(queue).tag <= n
        BY <1>c, <2>2 DEF TagsUpTo
    <2>6. \A i \in 1 .. Len(delivered) : delivered'[i].tag <= n
        BY <1>c, <2>3 DEF TagsUpTo
    <2>7. \A i \in 1 .. Len(delivered') : delivered'[i].tag <= n
        BY <2>3, <2>4, <2>5, <2>6
    <2> QED
        BY <1>c, <2>1, <2>2, <2>7 DEF TagsUpTo
<1>4. CASE PopFromFile
    <2>1. /\ queue # <<>> /\ queue' = Tail(queue) /\ taking'.entry = Head(queue)
          /\ UNCHANGED delivered
        BY <1>4 DEF PopFromFile
    <2>2. /\ \A j \in 1 .. Len(queue') : \E k \in 1 .. Len(queue) : queue'[j] = queue[k]
          /\ \E k \in 1 .. Len(queue) : Head(queue) = queue[k]
        BY <1>a, <2>1, TailInherits
    <2> QED
        BY <1>c, <2>1, <2>2 DEF TagsUpTo
<1>5. CASE ReturnBitmap
    <2>1. /\ taking.step = "read" /\ taking'.step # "read"
          /\ delivered' = Append(delivered, taking.entry) /\ UNCHANGED queue
        BY <1>5 DEF ReturnBitmap
    <2>2. /\ Len(delivered) \in Nat /\ Len(delivered') = Len(delivered) + 1
          /\ delivered'[Len(delivered) + 1] = taking.entry
          /\ \A i \in 1 .. Len(delivered) : delivered'[i] = delivered[i]
        BY <1>a, <2>1, AppendFacts
    <2>3. \A i \in 1 .. Len(delivered') : i \in 1 .. Len(delivered) \/ i = Len(delivered) + 1
        <3>1. Len(delivered) \in Nat /\ Len(delivered') = Len(delivered) + 1
            BY <2>2
        <3> QED
            BY <3>1, LastOrBefore
    <2>4. taking.entry.tag <= n
        BY <1>c, <2>1 DEF TagsUpTo
    <2>5. \A i \in 1 .. Len(delivered) : delivered'[i].tag <= n
        BY <1>c, <2>2 DEF TagsUpTo
    <2>6. \A i \in 1 .. Len(delivered') : delivered'[i].tag <= n
        BY <2>2, <2>3, <2>4, <2>5
    <2> QED
        BY <1>c, <2>1, <2>6 DEF TagsUpTo
<1> QED
    BY <1>1, <1>2, <1>3, <1>4, <1>5 DEF EncoderThread

LEMMA NextKeepsOpenInv == TypeOK /\ SyncInv /\ OpenInv /\ [Next]_vars => OpenInv'
<1> SUFFICES ASSUME TypeOK, SyncInv, OpenInv, [Next]_vars PROVE OpenInv'
    OBVIOUS
<1>1. CASE UNCHANGED vars
    BY <1>1 DEF vars, adders, takers, disk, starters, marks, capture, OpenInv, TagsUpTo, Started
<1> QED
    BY <1>1, StartKeepsOpenInv, AudioKeepsOpenInv, CaptureKeepsOpenInv, EncoderKeepsOpenInv DEF Next

LEMMA InitOpenInv == Init => OpenInv
<1> SUFFICES ASSUME Init PROVE OpenInv
    OBVIOUS
<1>1. Len(queue) = 0 /\ Len(delivered) = 0
    BY EmptySeq DEF Init
<1> QED
    BY <1>1 DEF Init, OpenInv, TagsUpTo


\* The bitmaps FrameQueue holds, with their places still on them.
Held == Reading \o queue

LEMMA HeldIs ==
    ASSUME TypeOK
    PROVE  /\ Held \in Seq(Entry)
           /\ taking.step # "read" => Held = queue
           /\ taking.step = "read" => Held # <<>> /\ Head(Held) = taking.entry /\ Tail(Held) = queue
<1>1. taking.entry \in Entry /\ queue \in Seq(Entry)
    BY DEF TypeOK
<1>2. CASE taking.step = "read"
    <2>1. Held = <<taking.entry>> \o queue
        BY <1>2 DEF Held, Reading
    <2> QED
        BY <1>1, <1>2, <2>1, Prefixed
<1>3. CASE taking.step # "read"
    <2>1. Held = <<>> \o queue
        BY <1>3 DEF Held, Reading
    <2> QED
        BY <1>1, <1>3, <2>1, ConcatEmptySeq
<1> QED
    BY <1>2, <1>3

LEMMA NoneRead ==
    ASSUME TypeOK', taking'.step # "read"
    PROVE  Held' = queue'
<1>1. \A q \in Seq(Entry) : <<>> \o q = q
    BY ConcatEmptySeq
<1>2. queue' \in Seq(Entry)
    BY DEF TypeOK
<1>3. Held' = <<>> \o queue'
    BY DEF Held, Reading
<1> QED
    BY <1>1, <1>2, <1>3

\* What FrameQueue shows of these entries is older than n and stamped with m at most.
Within(entries, n, m) ==
    \A i \in 1 .. Len(entries) : entries[i].seq < n /\ entries[i].tag <= m

LEMMA WithinBare ==
    ASSUME NEW s \in Seq(Entry), NEW n, NEW m, Within(s, n, m)
    PROVE  \A g \in FQ!Range(NoPlace(s)) : g.seq < n /\ g.tag <= m
<1>1. DOMAIN NoPlace(s) = 1 .. Len(s)
    BY LenProperties DEF NoPlace
<1>2. \A i \in 1 .. Len(s) : NoPlace(s)[i] = BareOf(s[i])
    BY NoPlaceIs
<1>3. \A i \in 1 .. Len(s) : NoPlace(s)[i].seq < n /\ NoPlace(s)[i].tag <= m
    BY <1>2, BareKeeps DEF Within
<1> QED
    BY <1>1, <1>3 DEF FQ!Range

LEMMA WithinHeld ==
    ASSUME TypeOK, NEW n, NEW m, Within(queue, n, m),
           taking.step = "read" => taking.entry.seq < n /\ taking.entry.tag <= m
    PROVE  Within(Held, n, m)
<1>1. CASE taking.step = "read"
    <2>1. Held \in Seq(Entry) /\ Held # <<>> /\ Head(Held) = taking.entry /\ Tail(Held) = queue
        BY <1>1, HeldIs
    <2>2. /\ Head(Held) = Held[1] /\ Len(Held) \in Nat \ {0} /\ Len(Tail(Held)) = Len(Held) - 1
          /\ \A i \in 1 .. Len(Tail(Held)) : Tail(Held)[i] = Held[i + 1]
        BY <2>1, TailFacts
    <2>3. ASSUME NEW i \in 1 .. Len(Held), i # 1 PROVE Held[i].seq < n /\ Held[i].tag <= m
        <3>1. i - 1 \in 1 .. Len(queue) /\ (i - 1) + 1 = i
            BY <2>1, <2>2, <2>3
        <3>2. queue[i - 1] = Held[i]
            BY <2>1, <2>2, <3>1
        <3> QED
            BY <3>1, <3>2 DEF Within
    <2> QED
        BY <1>1, <2>1, <2>2, <2>3 DEF Within
<1>2. CASE taking.step # "read"
    BY <1>2, HeldIs
<1> QED
    BY <1>1, <1>2

\* A function on 1 .. n is a sequence.
LEMMA ListOfNumbers ==
    ASSUME NEW n \in Nat, NEW f \in [1 .. n -> Nat]
    PROVE  f \in Seq(Nat) /\ Len(f) = n
<1>1. f \in Seq(Nat)
    OBVIOUS
<1>2. Len(f) \in Nat /\ DOMAIN f = 1 .. Len(f)
    BY <1>1, LenProperties
<1> QED
    BY <1>1, <1>2

\* The numbers of the pictures that were returned.
LEMMA NumbersAre ==
    ASSUME NEW s \in Seq(Entry)
    PROVE  \E u \in Seq(Nat) : /\ u = Numbers(s) /\ Len(u) = Len(s)
                               /\ \A i \in 1 .. Len(s) : u[i] = s[i].seq
<1> DEFINE u == Numbers(s)
<1>1. \A i \in 1 .. Len(s) : s[i].seq \in Nat
    BY ElementOfSeq, SeqIsNat
<1>2. DOMAIN s = 1 .. Len(s) /\ Len(s) \in Nat
    BY LenProperties
<1>3. u = [i \in 1 .. Len(s) |-> s[i].seq]
    BY <1>2, Zenon DEF Numbers
<1>4. u \in [1 .. Len(s) -> Nat] /\ \A i \in 1 .. Len(s) : u[i] = s[i].seq
    BY <1>1, <1>3
<1>5. u \in Seq(Nat) /\ Len(u) = Len(s)
    <2> HIDE DEF u
    <2> QED
        BY <1>2, <1>4, ListOfNumbers
<1> QED
    BY <1>4, <1>5

LEMMA NumbersPush ==
    ASSUME NEW s \in Seq(Entry), NEW e \in Entry
    PROVE  Numbers(Append(s, e)) = Append(Numbers(s), e.seq)
<1>1. PICK t \in Seq(Entry) : /\ t = Append(s, e) /\ Len(s) \in Nat /\ Len(t) = Len(s) + 1
                              /\ t[Len(s) + 1] = e /\ \A i \in 1 .. Len(s) : t[i] = s[i]
    <2>1. /\ Append(s, e) \in Seq(Entry) /\ Len(s) \in Nat
          /\ Len(Append(s, e)) = Len(s) + 1
          /\ Append(s, e)[Len(s) + 1] = e
          /\ \A i \in 1 .. Len(s) : Append(s, e)[i] = s[i]
        BY AppendFacts
    <2> QED
        BY <2>1
<1>2. PICK u \in Seq(Nat) : /\ u = Numbers(s) /\ Len(u) = Len(s)
                            /\ \A i \in 1 .. Len(s) : u[i] = s[i].seq
    BY NumbersAre
<1>3. PICK v \in Seq(Nat) : /\ v = Numbers(t) /\ Len(v) = Len(s) + 1
                            /\ \A i \in 1 .. Len(s) + 1 : v[i] = t[i].seq
    BY <1>1, NumbersAre
<1>4. PICK w \in Seq(Nat) : /\ w = Append(u, e.seq) /\ Len(w) = Len(s) + 1
                            /\ w[Len(s) + 1] = e.seq
                            /\ \A i \in 1 .. Len(s) : w[i] = u[i]
    <2>1. e.seq \in Nat
        BY SeqIsNat
    <2>2. /\ Append(u, e.seq) \in Seq(Nat) /\ Len(Append(u, e.seq)) = Len(s) + 1
          /\ Append(u, e.seq)[Len(s) + 1] = e.seq
          /\ \A i \in 1 .. Len(s) : Append(u, e.seq)[i] = u[i]
        BY <1>2, <2>1, AppendProperties
    <2> QED
        BY <2>2
<1>5. \A i \in 1 .. Len(s) + 1 : i \in 1 .. Len(s) \/ i = Len(s) + 1
    BY <1>1, LastOrBefore
<1>6. \A i \in 1 .. Len(s) + 1 : v[i] = w[i]
    BY <1>1, <1>2, <1>3, <1>4, <1>5
<1>7. v = w
    BY <1>3, <1>4, <1>6, SeqEqual
<1> QED
    BY <1>1, <1>2, <1>3, <1>4, <1>7

\* Steps of FrameQueue, recognised by what they do to the entries.
LEMMA Unseen ==
    ASSUME Held' = Held, UNCHANGED <<audio_sync, audio_mark, delivered, pictures, spilled>>, Started' = Started
    PROVE  UNCHANGED FQ!fqVars
BY DEF FQ!fqVars, FQ!taken, Held, SomeShared

LEMMA Takes ==
    ASSUME TypeOK, Held # <<>>, Head(Held).tag <= audio_sync, Held' = Tail(Held),
           \/ /\ delivered' = Append(delivered, Head(Held))
              /\ \E p \in Entry : pictures' = Append(pictures, p) /\ Shows(p, Head(Held), spilled)
           \/ UNCHANGED <<delivered, pictures>>,
           UNCHANGED <<audio_sync, audio_mark, spilled>>, Started' = Started
    PROVE  FQ!Take
<1>1. Held \in Seq(Entry) /\ delivered \in Seq(Entry) /\ Head(Held) \in Entry
    BY HeldIs, TailFacts DEF TypeOK
<1>2. /\ NoPlace(Held) # <<>> /\ Head(NoPlace(Held)) = BareOf(Head(Held))
      /\ NoPlace(Tail(Held)) = Tail(NoPlace(Held))
    BY <1>1, NoPlacePop
<1>3. NoPlace(Append(delivered, Head(Held))) = Append(NoPlace(delivered), BareOf(Head(Held)))
    BY <1>1, NoPlacePush
<1>4. NoPlace(Held)' = Tail(NoPlace(Held))
    BY <1>2 DEF NoPlace
<1>6. Head(NoPlace(Held)).tag <= audio_sync /\ Head(NoPlace(Held)).seq = Head(Held).seq
    BY <1>2 DEF BareOf
<1>7. SomeShared' = SomeShared
    BY DEF SomeShared
<1>8. CASE UNCHANGED <<delivered, pictures>>
    <2>1. UNCHANGED FQ!taken
        BY <1>8 DEF FQ!taken
    <2> QED
        BY <1>2, <1>4, <1>6, <1>7, <2>1 DEF FQ!Take, Held
<1>9. ASSUME NEW p \in Entry, delivered' = Append(delivered, Head(Held)),
             pictures' = Append(pictures, p), Shows(p, Head(Held), spilled)
      PROVE  FQ!Take
    <2>1. NoPlace(delivered)' = Append(NoPlace(delivered), Head(NoPlace(Held)))
        BY <1>2, <1>3, <1>9 DEF NoPlace
    <2>2. Numbers(pictures)' = Append(Numbers(pictures), p.seq)
        <3>1. Numbers(Append(pictures, p)) = Append(Numbers(pictures), p.seq)
            BY NumbersPush DEF TypeOK
        <3> QED
            BY <1>9, <3>1 DEF Numbers
    <2>3. p.seq \in Nat /\ p.seq <= MaxFrames /\ Head(Held).seq \in Nat /\ p.seq >= Head(Held).seq
        <3>1. p.seq \in SeqNo /\ Head(Held).seq \in SeqNo
            BY <1>1 DEF Entry
        <3> QED
            BY <1>9, <3>1, BoundsAssumption DEF SeqNo, Shows
    <2>4. p.seq \in Head(NoPlace(Held)).seq .. MaxFrames
        BY <1>6, <2>3, BoundsAssumption
    <2>5. p.seq # Head(NoPlace(Held)).seq => SomeShared
        <3>1. p # Head(Held) => Twice(Head(Held), spilled)
            BY <1>9 DEF Shows
        <3>2. Twice(Head(Held), spilled) => SomeShared
            BY <1>1 DEF Twice, SomeShared, Entry
        <3> QED
            BY <1>6, <3>1, <3>2
    <2> QED
        BY <1>2, <1>4, <1>6, <1>7, <2>1, <2>2, <2>4, <2>5 DEF FQ!Take, Held
<1> QED
    BY <1>8, <1>9

LEMMA Offers ==
    ASSUME TypeOK, Started, NEW e \in Entry, e.seq >= 1, e.tag <= audio_mark,
           Within(Held, e.seq, e.tag), Within(delivered, e.seq, e.tag), Held' = Append(Held, e),
           UNCHANGED <<audio_sync, audio_mark, delivered, pictures, spilled>>, Started' = Started
    PROVE  \E f \in FQ!Frame : FQ!Offer(f)
<1>1. Held \in Seq(Entry) /\ delivered \in Seq(Entry)
    BY HeldIs DEF TypeOK
<1>2. PICK f : f = BareOf(e) /\ f.seq = e.seq /\ f.tag = e.tag
    BY BareKeeps
<1>3. f \in FQ!Frame
    BY <1>2, BoundsAssumption DEF FQ!Frame, BareOf, Entry, SeqNo, Mark
<1>4. NoPlace(Held)' = Append(NoPlace(Held), f)
    <2>1. NoPlace(Append(Held, e)) = Append(NoPlace(Held), BareOf(e))
        BY <1>1, NoPlacePush
    <2>2. NoPlace(Held)' = NoPlace(Append(Held, e))
        BY DEF NoPlace
    <2> QED
        BY <1>2, <2>1, <2>2
<1>5. \A g \in FQ!Range(NoPlace(Held)) \cup FQ!Range(NoPlace(delivered)) :
          g.seq < f.seq /\ g.tag <= f.tag
    BY <1>1, <1>2, WithinBare
<1>6. UNCHANGED <<SomeShared, FQ!taken>>
    BY DEF SomeShared, FQ!taken
<1>7. FQ!Offer(f)
    BY <1>2, <1>4, <1>5, <1>6 DEF FQ!Offer, Held
<1> QED
    BY <1>3, <1>7

\* A file is written: two bitmaps share one from now on, or nothing is seen.
LEMMA Shares ==
    ASSUME TypeOK, UNCHANGED spilled \/ \E n \in Second : WriteFile(n), Held' = Held,
           UNCHANGED <<audio_sync, audio_mark, delivered, pictures>>, Started' = Started
    PROVE  [FQ!FQNext]_(FQ!fqVars)
<1>1. SomeShared => SomeShared'
    <2>1. \A m \in Second : spilled[m] \subseteq spilled'[m]
        BY DEF WriteFile, TypeOK
    <2> QED
        BY <2>1 DEF SomeShared
<1>2. CASE SomeShared'
    <2>1. FQ!Share
        BY <1>2 DEF FQ!Share, FQ!taken, Held
    <2> QED
        BY <2>1 DEF FQ!FQNext
<1>3. CASE ~SomeShared'
    <2>1. SomeShared' = SomeShared
        BY <1>1, <1>3 DEF SomeShared
    <2> QED
        BY <2>1 DEF FQ!fqVars, FQ!taken, Held
<1> QED
    BY <1>2, <1>3

\* The conditions under which a step of VideoQueue is one of FrameQueue.
Refining == TypeOK /\ SyncInv /\ OrderInv /\ FileInv /\ OpenInv /\ starts <= 1

LEMMA StartRefines ==
    ASSUME Refining, TypeOK', StartThread, starts' <= 1
    PROVE  [FQ!FQNext]_(FQ!fqVars)
<1> USE MarksAreInt DEF Refining, adders, takers, disk, starters, marks, capture
<1>1. CASE StartCall \/ ClearDone
    <2>1. /\ UNCHANGED <<queue, audio_sync, audio_mark, taking, delivered, pictures, spilled>>
          /\ starting' # "idle"
          /\ \/ starting = "idle" /\ starts' = starts + 1
             \/ starting # "idle" /\ starts' = starts
        BY <1>1 DEF StartCall, ClearDone
    <2>2. Started' = Started
        BY <2>1 DEF Started
    <2>3. Held' = Held
        BY <2>1 DEF Held, Reading
    <2> QED
        BY <2>1, <2>2, <2>3, Unseen
<1>2. CASE ClearOne
    <2>1. starting # "idle" /\ queue # <<>>
        BY <1>2 DEF ClearOne
    <2>2. ~Started
        BY <2>1 DEF OpenInv, Started
    <2>3. FALSE
        BY <2>1, <2>2 DEF OpenInv
    <2> QED
        BY <2>3
<1>3. CASE ResetMarks
    <2>1. /\ starting # "idle" /\ starting' = "idle" /\ starts' = starts
          /\ audio_sync' = -1 /\ audio_mark' = -1
          /\ UNCHANGED <<queue, taking, delivered, pictures, spilled>>
        BY <1>3 DEF ResetMarks
    <2>2. ~Started /\ Started'
        BY <2>1 DEF OpenInv, Started
    <2>3. Held' = Held
        BY <2>1 DEF Held, Reading
    <2>4. FQ!Open
        BY <2>1, <2>2, <2>3 DEF FQ!Open, FQ!taken, SomeShared, Held
    <2> QED
        BY <2>4 DEF FQ!FQNext
<1> QED
    BY <1>1, <1>2, <1>3 DEF StartThread

LEMMA AudioRefines ==
    ASSUME Refining, TypeOK', AudioThread
    PROVE  [FQ!FQNext]_(FQ!fqVars)
<1> USE MarksAreInt DEF Refining, adders, takers, disk, starters, marks, capture
<1>a. /\ UNCHANGED <<queue, taking, delivered, pictures, spilled, audio_sync, starting, starts>>
      /\ Started' = Started /\ Held' = Held
    BY DEF AudioThread, CapturePacket, SetAudioMark, Started, Held, Reading
<1>1. CASE CapturePacket
    BY <1>a, <1>1, Unseen DEF CapturePacket
<1>2. CASE SetAudioMark
    <2>1. audio_mark < index /\ audio_mark' = index /\ index \in 0 .. MaxMark
        BY <1>2 DEF SetAudioMark, OpenInv, TypeOK
    <2>2. audio_mark' \in audio_mark + 1 .. MaxMark
        BY <2>1, BoundsAssumption
    <2>3. FQ!AdvanceMark
        BY <1>a, <2>2 DEF FQ!AdvanceMark, FQ!taken, SomeShared, Held
    <2> QED
        BY <2>3 DEF FQ!FQNext
<1> QED
    BY <1>1, <1>2 DEF AudioThread

LEMMA CaptureRefines ==
    ASSUME Refining, TypeOK', CaptureThread
    PROVE  [FQ!FQNext]_(FQ!fqVars)
<1> USE MarksAreInt DEF Refining, adders, takers, disk, starters, marks, capture
<1>a. /\ UNCHANGED <<audio_sync, audio_mark, taking, delivered, pictures, starting, starts>>
      /\ Started' = Started
    BY DEF CaptureThread, AddBitmap, AddBitmapLowMemory, KeepInMemory, SpillToFile, SpillFails,
           PushEntry, Started
<1>1. CASE AddBitmap \/ AddBitmapLowMemory \/ KeepInMemory \/ SpillToFile \/ SpillFails
    <2>1. Held' = Held
        BY <1>1 DEF AddBitmap, AddBitmapLowMemory, KeepInMemory, SpillToFile, SpillFails,
                    Held, Reading
    <2>2. UNCHANGED spilled \/ \E n \in Second : WriteFile(n)
        BY <1>1 DEF AddBitmap, AddBitmapLowMemory, KeepInMemory, SpillToFile, SpillFails, disk
    <2> QED
        BY <1>a, <2>1, <2>2, Shares
<1>2. CASE PushEntry
    <2>1. adding.step = "push" /\ queue' = Append(queue, adding.frame) /\ UNCHANGED spilled
        BY <1>2 DEF PushEntry, disk
    <2>2. PICK e \in Entry : e = adding.frame
        BY MarksAreInt
    <2>3. Started /\ e.seq >= 1 /\ e.tag <= audio_mark /\ TagsUpTo(e.tag) /\ PipelineBefore(e.seq)
        BY <2>1, <2>2 DEF OpenInv, OrderInv
    <2>4. Within(delivered, e.seq, e.tag) /\ Within(queue, e.seq, e.tag)
        BY <2>3 DEF TagsUpTo, PipelineBefore, AllBefore, Within
    <2>5. Within(Held, e.seq, e.tag)
        BY <2>3, <2>4, WithinHeld DEF TagsUpTo, PipelineBefore
    <2>6. Held' = Append(Held, e)
        <3>1. Reading \in Seq(Entry) /\ queue \in Seq(Entry)
            BY DEF Reading, TypeOK
        <3>2. Reading' = Reading
            BY <1>a DEF Reading
        <3> QED
            BY <2>1, <2>2, <3>1, <3>2, PrefixedPush DEF Held
    <2>7. \E f \in FQ!Frame : FQ!Offer(f)
        <3>1. UNCHANGED <<audio_sync, audio_mark, delivered, pictures, spilled>> /\ Started' = Started
            BY <1>a, <2>1
        <3> QED
            BY <2>3, <2>4, <2>5, <2>6, <3>1, Offers
    <2> QED
        BY <2>7 DEF FQ!FQNext
<1> QED
    BY <1>1, <1>2 DEF CaptureThread

LEMMA EncoderRefines ==
    ASSUME Refining, TypeOK', EncoderThread
    PROVE  [FQ!FQNext]_(FQ!fqVars)
<1> USE MarksAreInt DEF Refining, adders, takers, disk, starters, marks, capture
<1>a. /\ UNCHANGED <<audio_mark, starting, starts, spilled>>
      /\ Started' = Started /\ queue \in Seq(Entry) /\ audio \in Seq(1 .. MaxMark)
    BY DEF EncoderThread, SetAudioSync, PeekBitmap, PopNothing, PopFromMemory, PopFromFile,
           ReadFile, ReturnBitmap, ReadFileFails, Started, TypeOK
<1>b. FQ!Take => [FQ!FQNext]_(FQ!fqVars)
    BY DEF FQ!FQNext
<1>1. CASE SetAudioSync
    <2>1. /\ Started /\ audio # <<>> /\ audio_sync' = Head(audio)
          /\ UNCHANGED <<queue, taking, delivered, pictures>>
        BY <1>1 DEF SetAudioSync
    <2>2. Head(audio) = audio[1] /\ Head(audio) \in 1 .. MaxMark /\ 1 \in 1 .. Len(audio)
        <3>1. /\ Head(audio) = audio[1] /\ Head(audio) \in 1 .. MaxMark
              /\ Len(audio) \in Nat \ {0}
            BY <1>a, <2>1, TailFacts
        <3> QED
            BY <3>1
    <2>3. audio_sync < Head(audio)
        BY <2>2 DEF SyncInv
    <2>4. audio_sync' \in audio_sync + 1 .. MaxMark
        BY <2>1, <2>2, <2>3, BoundsAssumption
    <2>5. Held' = Held
        BY <2>1 DEF Held, Reading
    <2>6. FQ!AdvanceSync
        BY <1>a, <2>1, <2>4, <2>5 DEF FQ!AdvanceSync, FQ!taken, SomeShared, Held
    <2> QED
        BY <2>6 DEF FQ!FQNext
<1>2. CASE PeekBitmap \/ PopNothing \/ ReadFile
    <2>1. /\ UNCHANGED <<queue, audio_sync, delivered, pictures>>
          /\ \/ taking.step # "read" /\ taking'.step # "read"
             \/ UNCHANGED taking
        BY <1>2 DEF PeekBitmap, PopNothing, ReadFile, TypeOK
    <2>2. Held' = Held
        BY <2>1 DEF Held, Reading
    <2> QED
        BY <1>a, <2>1, <2>2, Unseen
<1>3. CASE PopFromMemory
    <2>1. /\ taking.step = "pop" /\ queue # <<>> /\ queue' = Tail(queue)
          /\ delivered' = Append(delivered, Head(queue)) /\ pictures' = Append(pictures, Head(queue))
          /\ taking'.step # "read" /\ UNCHANGED audio_sync
        BY <1>3 DEF PopFromMemory
    <2>2. Held = queue /\ Held' = queue'
        <3>1. Held = queue
            BY <2>1, HeldIs
        <3>2. Held' = queue'
            BY <2>1, NoneRead
        <3> QED
            BY <3>1, <3>2
    <2>3. Head(queue).tag <= audio_sync
        BY <2>1 DEF SyncInv, Due
    <2>4. Head(queue) \in Entry /\ Shows(Head(queue), Head(queue), spilled)
        BY <1>a, <2>1, TailFacts DEF Shows
    <2>5. FQ!Take
        BY <1>a, <2>1, <2>2, <2>3, <2>4, Takes
    <2> QED
        BY <1>b, <2>5
<1>4. CASE PopFromFile
    <2>1. /\ taking.step = "pop" /\ queue # <<>> /\ queue' = Tail(queue)
          /\ taking'.step = "read" /\ taking'.entry = Head(queue)
          /\ UNCHANGED <<audio_sync, delivered, pictures>>
        BY <1>4 DEF PopFromFile
    <2>2. Held = queue
        BY <2>1, HeldIs
    <2>3. Held' = <<Head(queue)>> \o Tail(queue)
        BY <2>1 DEF Held, Reading
    <2>4. Held' = Held
        BY <1>a, <2>1, <2>2, <2>3, HeadAndTail
    <2> QED
        BY <1>a, <2>1, <2>4, Unseen
<1>5. CASE ReturnBitmap \/ ReadFileFails
    <2>1. /\ taking.step = "read" /\ taking'.step # "read"
          /\ UNCHANGED <<audio_sync, queue>>
        BY <1>5 DEF ReturnBitmap, ReadFileFails
    <2>6. \/ /\ delivered' = Append(delivered, taking.entry)
             /\ \E p \in Entry : pictures' = Append(pictures, p) /\ Shows(p, taking.entry, spilled)
          \/ UNCHANGED <<delivered, pictures>>
        <3>1. CASE ReturnBitmap
            <4>1. /\ jpeg # NoEntry /\ jpeg \in Entry /\ delivered' = Append(delivered, taking.entry)
                  /\ pictures' = Append(pictures, jpeg)
                BY <3>1 DEF ReturnBitmap, TypeOK
            <4>2. Shows(jpeg, taking.entry, spilled)
                BY <4>1 DEF FileInv, PictureInv
            <4> QED
                BY <4>1, <4>2
        <3>2. CASE ReadFileFails
            BY <3>2 DEF ReadFileFails
        <3> QED
            BY <1>5, <3>1, <3>2
    <2>2. Held # <<>> /\ Head(Held) = taking.entry /\ Tail(Held) = queue
        BY <2>1, HeldIs
    <2>3. Held' = queue'
        BY <2>1, NoneRead
    <2>4. taking.entry.tag <= audio_sync
        BY <2>1 DEF SyncInv
    <2>5. FQ!Take
        BY <1>a, <2>1, <2>2, <2>3, <2>4, <2>6, Takes
    <2> QED
        BY <1>b, <2>5
<1> QED
    BY <1>1, <1>2, <1>3, <1>4, <1>5 DEF EncoderThread

LEMMA StepRefines ==
    TypeOK /\ TypeOK' /\ SyncInv /\ OrderInv /\ FileInv /\ OpenInv /\ [Next]_vars
        => [FQ!FQNext \/ starts' > 1]_(FQ!fqVars)
<1> SUFFICES ASSUME TypeOK, TypeOK', SyncInv, OrderInv, FileInv, OpenInv, [Next]_vars, ~(starts' > 1)
             PROVE  [FQ!FQNext]_(FQ!fqVars)
    OBVIOUS
<1>1. starts \in Nat /\ starts' \in Nat
    BY BoundsAssumption DEF TypeOK
<1>2. starts' = starts \/ starts' = starts + 1
    BY DEF Next, vars, StartThread, StartCall, ClearOne, ClearDone, ResetMarks, AudioThread,
           CapturePacket, SetAudioMark, CaptureThread, AddBitmap, AddBitmapLowMemory, KeepInMemory,
           SpillToFile, SpillFails, PushEntry, EncoderThread, SetAudioSync, PeekBitmap, PopNothing,
           PopFromMemory, PopFromFile, ReadFile, ReturnBitmap, ReadFileFails, starters
<1>3. Refining /\ starts' <= 1
    BY <1>1, <1>2 DEF Refining
<1>4. CASE UNCHANGED vars
    BY <1>4, Unseen DEF vars, adders, takers, disk, disk, starters, marks, capture, Held, Reading, Started
<1> QED
    BY <1>3, <1>4, StartRefines, AudioRefines, CaptureRefines, EncoderRefines DEF Next

LEMMA InitRefines == Init => FQ!FQInit
<1> SUFFICES ASSUME Init PROVE FQ!FQInit
    OBVIOUS
<1>1. NoPlace(Reading \o queue) = <<>> /\ NoPlace(delivered) = <<>>
    <2>1. TypeOK
        BY InitType
    <2>2. Held = <<>> /\ delivered = <<>> /\ Held \in Seq(Entry)
        BY <2>1, HeldIs DEF Init
    <2>3. NoPlace(<<>>) \in Seq(Bare) /\ Len(NoPlace(<<>>)) = 0
        BY <2>2, NoPlaceIs
    <2> QED
        BY <2>2, <2>3, EmptySeq DEF Held
<1>2. Numbers(pictures) = <<>>
    <2>1. pictures = <<>> /\ pictures \in Seq(Entry) /\ Len(pictures) = 0
        BY EmptySeq DEF Init
    <2>2. \E u \in Seq(Nat) : u = Numbers(pictures) /\ Len(u) = 0
        BY <2>1, NumbersAre
    <2> QED
        BY <2>2, EmptySeq
<1>3. ~SomeShared
    BY DEF Init, SomeShared
<1> QED
    BY <1>1, <1>2, <1>3 DEF Init, FQ!FQInit, Started

\* Seen without the place an entry is kept in, and until a second start(), every
\* step of the four threads is one step of FrameQueue or none: bitmaps are offered
\* in capture order and taken in that order when their audio has been drawn.
THEOREM QueueImplementsFrameQueue == Spec => ImplementsFrameQueue
<1>1. AudioInv => TypeOK /\ SyncInv
    BY DEF AudioInv
<1> QED
    BY InitRefines, InitOrderInv, InitAudioInv, InitOpenInv, StepRefines, NextKeepsOrderInv,
       NextKeepsAudioInv, NextKeepsOpenInv, InitFileInv, NextKeepsFileInv, <1>1, TypeCorrect, PTL
       DEF Spec, ImplementsFrameQueue

===============================================================================
