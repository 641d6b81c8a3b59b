----------------------------- MODULE Packer_proofs -----------------------------
(***************************************************************************)
(* Proofs about Packer, for every size of a part, every disk and every     *)
(* relation between the size of a folder and the size of its archive.      *)
(***************************************************************************)
EXTENDS Packer, TLAPS

\* What Split is before and after another part is cut.
LEMMA SplitFacts ==
  ASSUME cuts \in Seq(Nat)
  PROVE  /\ Split \in Nat
         /\ \A n \in Nat : cuts' = Append(cuts, n) =>
              /\ Split' = n
              /\ cuts' \in Seq(Nat) /\ cuts' # <<>>
              /\ DOMAIN cuts' = DOMAIN cuts \cup {Len(cuts) + 1}
              /\ \A k \in DOMAIN cuts : cuts'[k] = cuts[k]
              /\ cuts'[Len(cuts) + 1] = n
<1>1. Split \in Nat BY DEF Split
<1>2. ASSUME NEW n \in Nat, cuts' = Append(cuts, n)
      PROVE  /\ Split' = n
             /\ cuts' \in Seq(Nat) /\ cuts' # <<>>
             /\ DOMAIN cuts' = DOMAIN cuts \cup {Len(cuts) + 1}
             /\ \A k \in DOMAIN cuts : cuts'[k] = cuts[k]
             /\ cuts'[Len(cuts) + 1] = n
  <2>1. /\ cuts' \in Seq(Nat) /\ Len(cuts') = Len(cuts) + 1 /\ cuts' # <<>>
        /\ \A k \in 1..Len(cuts) : cuts'[k] = cuts[k]
        /\ cuts'[Len(cuts) + 1] = n
    BY <1>2
  <2>2. DOMAIN cuts = 1..Len(cuts) /\ DOMAIN cuts' = 1..Len(cuts') /\ Len(cuts) \in Nat
    BY <2>1
  <2>3. Split' = n BY <2>1 DEF Split
  <2> QED BY <2>1, <2>2, <2>3
<1> QED BY <1>1, <1>2

LEMMA InitIInv == Init => IInv
<1> SUFFICES ASSUME Init PROVE IInv
    OBVIOUS
<1>1. TypeOK BY PackerAssumption DEF Init, TypeOK, PCs, Sizes
<1> QED BY <1>1, PackerAssumption
        DEF Init, IInv, TypeOK, RoomAccounted, RoomGranted, AskedRoomSuffices,
            PartsAreTheArchive

\* One more part, or a disk that has no room for it.
LEMMA WritePartStep == IInv /\ WritePart => IInv'
<1> SUFFICES ASSUME IInv, WritePart PROVE IInv'
    OBVIOUS
<1> DEFINE left == archive - Split
           chunk == IF left > MaxPart THEN MaxPart ELSE left
<1>1. /\ TypeOK /\ RoomAccounted /\ RoomGranted /\ AskedRoomSuffices
      /\ PartsAreTheArchive
  BY DEF IInv
<1>2. /\ Split \in Nat /\ archive \in Nat /\ room \in Nat /\ total \in Nat
      /\ taken \in Nat /\ start \in Nat /\ MaxPart \in Nat \ {0} /\ cuts \in Seq(Nat)
  BY <1>1, SplitFacts, PackerAssumption DEF TypeOK
<1>3. /\ pc = "archived" /\ Split < archive /\ archive > MaxPart
      /\ room + taken + archive + Split = start
  BY <1>1 DEF WritePart, RoomAccounted
<1>4. chunk \in 1..MaxPart /\ Split + chunk \in Nat /\ Split + chunk <= archive
  BY <1>2, <1>3
<1>5. UNCHANGED <<kind, total, source, taken, archive, start>>
  BY DEF WritePart
<1>6. CASE chunk <= room
  <2>1. pc' = pc /\ room' = room - chunk /\ cuts' = Append(cuts, Split + chunk)
    BY <1>6 DEF WritePart
  <2>2. /\ Split' = Split + chunk /\ cuts' \in Seq(Nat) /\ cuts' # <<>>
        /\ DOMAIN cuts' = DOMAIN cuts \cup {Len(cuts) + 1}
        /\ \A k \in DOMAIN cuts : cuts'[k] = cuts[k]
        /\ cuts'[Len(cuts) + 1] = Split + chunk
    BY <1>2, <1>4, <2>1, SplitFacts
  <2>3. TypeOK' BY <1>1, <1>2, <1>4, <1>5, <1>6, <2>1, <2>2 DEF TypeOK
  <2>4. RoomAccounted' BY <1>1, <1>2, <1>3, <1>4, <1>5, <1>6, <2>1, <2>2 DEF RoomAccounted
  <2>5. RoomGranted' BY <1>1, <1>3, <1>5, <2>1 DEF RoomGranted, RoomAsked
  <2>6. AskedRoomSuffices' BY <1>3, <2>1 DEF AskedRoomSuffices
  <2>7. ASSUME NEW k \in DOMAIN cuts'
        PROVE  cuts'[k] - (IF k = 1 THEN 0 ELSE cuts'[k - 1]) \in 1..MaxPart
    <3>1. CASE k \in DOMAIN cuts
      <4>1. cuts[k] - (IF k = 1 THEN 0 ELSE cuts[k - 1]) \in 1..MaxPart
        BY <1>1, <3>1 DEF PartsAreTheArchive
      <4>2. k # 1 => k - 1 \in DOMAIN cuts BY <1>2, <3>1
      <4> QED BY <2>2, <3>1, <4>1, <4>2
    <3>2. CASE k = Len(cuts) + 1
      <4>1. CASE cuts = <<>>
        <5>1. Split = 0 /\ k = 1 BY <3>2, <4>1 DEF Split
        <5> QED BY <1>4, <2>2, <3>2, <5>1
      <4>2. CASE cuts # <<>>
        <5>1. k - 1 = Len(cuts) /\ k # 1 /\ k - 1 \in DOMAIN cuts BY <1>2, <3>2, <4>2
        <5>2. cuts'[k - 1] = Split BY <2>2, <4>2, <5>1 DEF Split
        <5> QED BY <1>2, <1>4, <2>2, <3>2, <5>1, <5>2
      <4> QED BY <4>1, <4>2
    <3> QED BY <2>2, <3>1, <3>2
  <2>8. PartsAreTheArchive' BY <1>3, <2>1, <2>7 DEF PartsAreTheArchive
  <2> QED BY <2>3, <2>4, <2>5, <2>6, <2>8 DEF IInv
<1>7. CASE ~(chunk <= room)
  <2>1. pc' = "full" /\ room' = 0 /\ cuts' = cuts BY <1>7 DEF WritePart
  <2>2. Split' = Split BY <2>1 DEF Split
  <2>3. TypeOK' BY <1>1, <1>5, <2>1 DEF TypeOK, PCs
  <2>4. RoomAccounted'
    <3>1. room' + taken' <= start' BY <1>2, <1>3, <1>5, <2>1
    <3> QED BY <2>1, <3>1 DEF RoomAccounted
  <2>5. RoomGranted' BY <2>1 DEF RoomGranted
  <2>6. ASSUME kind # "file", taken = 0, archive <= MaxPart \/ total > MaxPart
        PROVE  archive * 10 > total * 11
    <3>1. total > MaxPart BY <1>2, <2>6 DEF WritePart
    <3>2. start * 10 >= total * 22
      BY <1>1, <1>3, <2>6, <3>1 DEF RoomGranted, RoomAsked, TypeOK
    <3>3. start < 2 * archive BY <1>2, <1>3, <1>4, <1>7, <2>6
    <3> QED BY <1>2, <3>2, <3>3
  <2>7. AskedRoomSuffices'
    BY <1>1, <1>2, <1>5, <2>6 DEF AskedRoomSuffices, TypeOK
  <2>8. PartsAreTheArchive' BY <1>1, <2>1 DEF PartsAreTheArchive
  <2> QED BY <2>3, <2>4, <2>5, <2>7, <2>8 DEF IInv
<1> QED BY <1>6, <1>7

LEMMA StepIInv == IInv /\ [Next]_vars => IInv'
<1> SUFFICES ASSUME IInv, [Next]_vars PROVE IInv'
    OBVIOUS
<1> USE PackerAssumption
<1>0. /\ TypeOK /\ RoomAccounted /\ RoomGranted /\ AskedRoomSuffices
      /\ PartsAreTheArchive
  BY DEF IInv
<1>t. /\ Split \in Nat /\ archive \in Nat /\ room \in Nat /\ total \in Nat
      /\ taken \in Nat /\ start \in Nat /\ MaxPart \in Nat \ {0}
  BY <1>0, SplitFacts DEF TypeOK
<1>s. cuts' = cuts => Split' = Split
  BY DEF Split
<1>1. CASE AskFile
  BY <1>0, <1>s, <1>1 DEF AskFile, IInv, TypeOK, PCs, RoomAccounted, RoomGranted,
                          AskedRoomSuffices, PartsAreTheArchive
<1>2. CASE AskFolder
  <2>1. RoomGranted'
    BY <1>0, <1>t, <1>2 DEF AskFolder, RoomGranted, RoomAsked, RoomAccounted
  <2>2. TypeOK' BY <1>0, <1>2 DEF AskFolder, TypeOK, PCs
  <2> QED BY <1>0, <1>s, <1>2, <2>1, <2>2
          DEF AskFolder, IInv, RoomAccounted, AskedRoomSuffices, PartsAreTheArchive
<1>3. CASE MakeArchive
  <2>1. PICK size \in Archived[source] :
          /\ archive' = size
          /\ IF size <= room THEN pc' = "archived" /\ room' = room - size
                             ELSE pc' = "full" /\ room' = room
    BY <1>3 DEF MakeArchive
  <2>2. size \in Nat \ {0}
    <3>1. source \in Sizes BY <1>0, <1>t DEF TypeOK, Sizes
    <3> QED BY <2>1, <3>1
  <2>3. /\ pc = "pack" /\ UNCHANGED <<kind, total, source, taken, cuts, start>>
        /\ cuts = <<>> /\ room + taken = start /\ Split = 0
    BY <1>0, <1>3 DEF MakeArchive, RoomAccounted, Split
  <2>4. TypeOK' BY <1>0, <1>t, <2>1, <2>2, <2>3 DEF TypeOK, PCs
  <2>5. RoomAccounted' BY <1>0, <1>t, <1>s, <2>1, <2>2, <2>3 DEF RoomAccounted
  <2>6. RoomGranted' BY <1>0, <2>1, <2>3 DEF RoomGranted, RoomAsked
  <2>7. AskedRoomSuffices'
    <3> SUFFICES ASSUME size > room, kind = "folder", taken = 0
                 PROVE  size * 10 > total * 11
      BY <1>0, <1>t, <2>1, <2>2, <2>3 DEF AskedRoomSuffices, TypeOK
    <3>1. start * 10 >= total * 11
      BY <1>0, <1>t, <2>3 DEF RoomGranted, RoomAsked
    <3> QED BY <1>t, <2>2, <2>3, <3>1
  <2>8. PartsAreTheArchive' BY <2>1, <2>3 DEF PartsAreTheArchive
  <2> QED BY <2>4, <2>5, <2>6, <2>7, <2>8 DEF IInv
<1>4. CASE SendWhole
  <2>2. cuts = <<>> BY <1>0, <1>t, <1>4 DEF SendWhole, RoomAccounted
  <2> QED
    BY <1>0, <1>t, <1>s, <1>4, <2>2
    DEF SendWhole, IInv, TypeOK, PCs, RoomAccounted, RoomGranted,
        AskedRoomSuffices, PartsAreTheArchive
<1>5. CASE WritePart BY <1>5, WritePartStep
<1>6. CASE SplitDone
  <2>1. cuts # <<>> BY <1>0, <1>t, <1>6 DEF SplitDone, RoomAccounted, Split
  <2>2. TypeOK' BY <1>0, <1>t, <1>6 DEF SplitDone, TypeOK, PCs
  <2> QED BY <1>0, <1>t, <1>s, <1>6, <2>1, <2>2
          DEF SplitDone, IInv, RoomAccounted, RoomGranted, AskedRoomSuffices,
              PartsAreTheArchive
<1>7. CASE Clean
  <2>1. start - taken \in Nat BY <1>0, <1>t DEF RoomAccounted
  <2> QED BY <1>0, <1>t, <1>s, <1>7, <2>1
          DEF Clean, IInv, TypeOK, PCs, RoomAccounted, RoomGranted,
              AskedRoomSuffices, PartsAreTheArchive
<1>8. CASE OthersWrite
  <2>1. TypeOK' BY <1>0, <1>t, <1>8 DEF OthersWrite, TypeOK
  <2> QED BY <1>0, <1>t, <1>s, <1>8, <2>1
          DEF OthersWrite, IInv, RoomAccounted, RoomGranted, AskedRoomSuffices,
              PartsAreTheArchive
<1>9. CASE SourceGrows
  <2>1. source + 1 \in total..(total + MaxWritten)
    BY <1>0, <1>t, <1>9 DEF SourceGrows, TypeOK
  <2> QED BY <1>0, <1>s, <1>9, <2>1
          DEF SourceGrows, IInv, TypeOK, RoomAccounted, RoomGranted, RoomAsked,
              AskedRoomSuffices, PartsAreTheArchive
<1>10. CASE UNCHANGED vars
  BY <1>0, <1>s, <1>10 DEF vars, IInv, TypeOK, RoomAccounted, RoomGranted, RoomAsked,
                           AskedRoomSuffices, PartsAreTheArchive
<1> QED BY <1>1, <1>2, <1>3, <1>4, <1>5, <1>6, <1>7, <1>8, <1>9, <1>10 DEF Next

\* The sizes keep their types and the disk is accounted for, at every moment of a
\* delivery.
THEOREM DiskAccounted == Spec => []IInv
BY InitIInv, StepIInv, PTL DEF Spec

\* Sizes, cuts and counters keep their types.
THEOREM PackerTypeCorrect == Spec => []TypeOK
<1>1. IInv => TypeOK BY DEF IInv
<1> QED BY <1>1, DiskAccounted, PTL

\* A folder that got the room it asked for runs out of it only for the reasons
\* AskedRoomSuffices names, whatever the sizes.
THEOREM RoomSuffices == Spec => []AskedRoomSuffices
<1>1. IInv => AskedRoomSuffices BY DEF IInv
<1> QED BY <1>1, DiskAccounted, PTL

\* The parts are the archive, cut into pieces that can be sent.
THEOREM PartsJoin == Spec => []PartsAreTheArchive
<1>1. IInv => PartsAreTheArchive BY DEF IInv
<1> QED BY <1>1, DiskAccounted, PTL

--------------------------------------------------------------------------------
(* The order of the names *)

\* Two digits are compared as the numbers they stand for.
LEMMA TwoDigits ==
  ASSUME NEW j \in 1..99, NEW k \in 1..99, j < k
  PROVE  NameBefore(j, k)
<1> DEFINE a == <<j \div 10, j % 10>>
           b == <<k \div 10, k % 10>>
<1>1. Digits(j) = a /\ Digits(k) = b BY DEF Digits
<1>2. /\ a[1] = j \div 10 /\ a[2] = j % 10 /\ Len(a) = 2
      /\ b[1] = k \div 10 /\ b[2] = k % 10 /\ Len(b) = 2
  OBVIOUS
<1>3. j \div 10 < k \div 10 \/ (j \div 10 = k \div 10 /\ j % 10 < k % 10)
  OBVIOUS
<1>4. CASE j \div 10 < k \div 10 BY <1>1, <1>2, <1>4 DEF NameBefore
<1>5. CASE j \div 10 = k \div 10 /\ j % 10 < k % 10 BY <1>1, <1>2, <1>5 DEF NameBefore
<1> QED BY <1>3, <1>4, <1>5

\* The hundredth part is listed before the eleventh.
LEMMA HundredBeforeEleven == ~NameBefore(11, 100)
<1>1. Digits(11) = <<1, 1>> /\ Digits(100) = <<1, 0, 0>> BY DEF Digits
<1>2. /\ Len(Digits(11)) = 2 /\ Digits(11)[1] = 1 /\ Digits(11)[2] = 1
      /\ Len(Digits(100)) = 3 /\ Digits(100)[1] = 1 /\ Digits(100)[2] = 0
  BY <1>1
<1> SUFFICES ASSUME NameBefore(11, 100) PROVE FALSE
    OBVIOUS
<1>3. PICK i \in 1..Len(Digits(100)) :
        /\ \A n \in 1..(i - 1) : Digits(11)[n] = Digits(100)[n]
        /\ i <= Len(Digits(11)) => Digits(11)[i] < Digits(100)[i]
  BY DEF NameBefore
<1>4. i \in 1..3 BY <1>2, <1>3
<1>5. CASE i = 1 BY <1>2, <1>3, <1>5
<1>6. CASE i = 2 BY <1>2, <1>3, <1>6
<1>7. CASE i = 3
  <2>1. 2 \in 1..(i - 1) BY <1>7
  <2> QED BY <1>2, <1>3, <2>1
<1> QED BY <1>4, <1>5, <1>6, <1>7

LEMMA TypeGivesOrder == TypeOK => CatRestoresUpTo99
<1> SUFFICES ASSUME TypeOK
             PROVE  (\A j, k \in DOMAIN cuts : j < k => NameBefore(j, k)) <=> Len(cuts) <= 99
    BY DEF CatRestoresUpTo99
<1>1. DOMAIN cuts = 1..Len(cuts) /\ Len(cuts) \in Nat BY DEF TypeOK
<1>2. ASSUME Len(cuts) <= 99, NEW j \in DOMAIN cuts, NEW k \in DOMAIN cuts, j < k
      PROVE  NameBefore(j, k)
  <2>1. j \in 1..Len(cuts) /\ k \in 1..Len(cuts) BY <1>1
  <2>2. Len(cuts) \in Nat /\ Len(cuts) <= 99 BY <1>1, <1>2
  <2>3. \A n \in Nat : n <= 99 => 1..n \subseteq 1..99 OBVIOUS
  <2>4. j \in 1..99 /\ k \in 1..99 BY <2>1, <2>2, <2>3
  <2> QED BY <1>2, <2>4, TwoDigits
<1>3. ASSUME Len(cuts) > 99
      PROVE  \E j, k \in DOMAIN cuts : j < k /\ ~NameBefore(j, k)
  <2>1. 11 \in DOMAIN cuts /\ 100 \in DOMAIN cuts BY <1>1, <1>3
  <2> QED BY <2>1, HundredBeforeEleven
<1> QED BY <1>1, <1>2, <1>3

\* The command the user is given restores the archive exactly up to 99 parts.
THEOREM CatRestores == Spec => []CatRestoresUpTo99
<1>1. IInv => CatRestoresUpTo99 BY TypeGivesOrder DEF IInv
<1> QED BY <1>1, DiskAccounted, PTL
================================================================================
