-------------------------------- MODULE Packer --------------------------------
(***************************************************************************)
(* The sizes behind a delivery: what _send_folder() and _send_file() of    *)
(* bot/main.py ask of the disk, the archive and the parts packer.py puts   *)
(* on it, and the order in which "cat archive.part*" joins the parts.      *)
(*                                                                         *)
(* Sizes are numbers of bytes.  The bytes of an archive are its positions; *)
(* part k holds the positions after cuts[k - 1] up to cuts[k].             *)
(*                                                                         *)
(* While the bot packs, rsync may write into the folder and other          *)
(* processes may use the disk.                                             *)
(***************************************************************************)
EXTENDS Naturals, Sequences

CONSTANTS
  MaxPart,    \* max_part_bytes
  Sources,    \* sizes a file or a folder may have
  Archived,   \* Archived[s]: sizes the archive of s bytes may have
  Rooms,      \* free bytes of the disk at the beginning
  MaxTaken,   \* bound: bytes other processes take from the disk
  MaxWritten  \* bound: bytes rsync adds to the folder after it was sized

Sizes == Sources \cup {s + n : s \in Sources, n \in 0..MaxWritten}

ASSUME PackerAssumption ==
  /\ MaxPart \in Nat \ {0} /\ Sources \subseteq Nat /\ Rooms \subseteq Nat
  /\ MaxTaken \in Nat /\ MaxWritten \in Nat
  /\ Archived \in [Sizes -> SUBSET (Nat \ {0})]

VARIABLES
  pc,         \* where the delivery is
  kind,       \* "file" or "folder"
  total,      \* directory_stats().total_bytes of the folder
  source,     \* bytes of the file or the folder now
  room,       \* free bytes of the disk
  taken,      \* bytes other processes have taken from it
  archive,    \* size of the archive
  cuts,       \* where the parts end in the archive, in the order they are made
  start       \* history: free bytes before the delivery

vars == <<pc, kind, total, source, room, taken, archive, cuts, start>>

Init ==
  /\ pc = "asked" /\ kind \in {"file", "folder"}
  /\ source \in Sources /\ total = source
  /\ room \in Rooms /\ start = room /\ taken = 0 /\ archive = 0 /\ cuts = <<>>

--------------------------------------------------------------------------------
(* Names and sizes *)

\* Mutant: no leading zero.
DigitsUnpadded(k) == IF k < 10 THEN <<k>>
                     ELSE IF k < 100 THEN <<k \div 10, k % 10>>
                     ELSE <<k \div 100, (k \div 10) % 10, k % 10>>

\* The digits of f"{k:02d}", for k below 1000.
Digits(k) == IF k < 100 THEN <<k \div 10, k % 10>>
                        ELSE <<k \div 100, (k \div 10) % 10, k % 10>>

\* The shell expands part* in the order of the names.
NameBefore(j, k) ==
  LET a == Digits(j)  b == Digits(k) IN
  \E i \in 1..Len(b) :
    /\ i <= Len(a) + 1
    /\ \A n \in 1..(i - 1) : a[n] = b[n]
    /\ i <= Len(a) => a[i] < b[i]

\* Bytes of the archive that are in parts.
Split == IF cuts = <<>> THEN 0 ELSE cuts[Len(cuts)]

\* Mutant: the same headroom whether or not the archive will be split.
RoomAskedOnce == total * 11

\* Ten times the bytes that must be free: 1.1 times the folder, and as much again
\* if the folder is larger than a part.
RoomAsked == IF total > MaxPart THEN total * 22 ELSE total * 11

--------------------------------------------------------------------------------
(* The delivery *)

\* pack_for_send() for a file, without asking for room.
AskFile ==
  /\ pc = "asked" /\ kind = "file" /\ pc' = "pack"
  /\ UNCHANGED <<kind, total, source, room, taken, archive, cuts, start>>

\* disk_usage(workdir).free against the headroom.
AskFolder ==
  /\ pc = "asked" /\ kind = "folder"
  /\ pc' = IF room * 10 < RoomAsked THEN "noSpace" ELSE "pack"
  /\ UNCHANGED <<kind, total, source, room, taken, archive, cuts, start>>

\* make_encrypted_zip() or _make_encrypted_dir_zip().  On a full disk the
\* unfinished archive is deleted.
MakeArchive ==
  /\ pc = "pack"
  /\ \E size \in Archived[source] :
       /\ archive' = size
       /\ IF size <= room
            THEN pc' = "archived" /\ room' = room - size
            ELSE pc' = "full" /\ room' = room
  /\ UNCHANGED <<kind, total, source, taken, cuts, start>>

\* Small enough to be sent as it is.
SendWhole ==
  /\ pc = "archived" /\ archive <= MaxPart
  /\ pc' = "send"
  /\ UNCHANGED <<kind, total, source, room, taken, archive, cuts, start>>

\* Mutant: the archive is cut where a part would be full, and one byte further.
WritePartOverlong ==
  /\ pc = "archived" /\ archive > MaxPart /\ Split < archive
  /\ LET left == archive - Split
         chunk == IF left > MaxPart THEN MaxPart + 1 ELSE left
     IN IF chunk <= room
          THEN pc' = pc /\ room' = room - chunk /\ cuts' = Append(cuts, Split + chunk)
          ELSE pc' = "full" /\ room' = 0 /\ cuts' = cuts
  /\ UNCHANGED <<kind, total, source, taken, archive, start>>

\* Mutant: a part that could not be written counts all the same.
WritePartUnchecked ==
  /\ pc = "archived" /\ archive > MaxPart /\ Split < archive
  /\ LET left == archive - Split
         chunk == IF left > MaxPart THEN MaxPart ELSE left
     IN room' = room - chunk /\ cuts' = Append(cuts, Split + chunk)
  /\ UNCHANGED <<pc, kind, total, source, taken, archive, start>>

\* split_file(): the next part, while the archive is still on the disk.  A part that
\* does not fit fills the disk.
WritePart ==
  /\ pc = "archived" /\ archive > MaxPart /\ Split < archive
  /\ LET left == archive - Split
         chunk == IF left > MaxPart THEN MaxPart ELSE left
     IN IF chunk <= room
          THEN pc' = pc /\ room' = room - chunk /\ cuts' = Append(cuts, Split + chunk)
          ELSE pc' = "full" /\ room' = 0 /\ cuts' = cuts
  /\ UNCHANGED <<kind, total, source, taken, archive, start>>

\* split_file(): nothing is left to read, the archive is deleted.
SplitDone ==
  /\ pc = "archived" /\ archive > MaxPart /\ Split = archive
  /\ pc' = "send" /\ room' = room + archive
  /\ UNCHANGED <<kind, total, source, taken, archive, cuts, start>>

\* The finally clause: rmtree(workdir), after success or failure.
Clean ==
  /\ pc \in {"noSpace", "full", "send"}
  /\ pc' = "clean" /\ room' = start - taken
  /\ UNCHANGED <<kind, total, source, taken, archive, cuts, start>>

--------------------------------------------------------------------------------
(* The world *)

OthersWrite ==
  /\ pc # "clean" /\ taken < MaxTaken /\ room > 0
  /\ taken' = taken + 1 /\ room' = room - 1
  /\ UNCHANGED <<pc, kind, total, source, archive, cuts, start>>

\* rsync adds a byte to what has been sized but not packed yet.
SourceGrows ==
  /\ pc = "pack" /\ source < total + MaxWritten
  /\ source' = source + 1
  /\ UNCHANGED <<pc, kind, total, room, taken, archive, cuts, start>>

--------------------------------------------------------------------------------
Next == \/ AskFile \/ AskFolder \/ MakeArchive \/ SendWhole \/ WritePart
        \/ SplitDone \/ Clean \/ OthersWrite \/ SourceGrows

Spec == Init /\ [][Next]_vars

--------------------------------------------------------------------------------
(* Properties *)

PCs == {"asked", "noSpace", "pack", "full", "archived", "send", "clean"}

TypeOK ==
  /\ pc \in PCs /\ kind \in {"file", "folder"}
  /\ total \in Sources /\ source \in total..(total + MaxWritten)
  /\ room \in Nat /\ start \in Rooms /\ taken \in 0..MaxTaken
  /\ archive \in Nat /\ cuts \in Seq(Nat)

\* Comment at _SPLIT_DISK_HEADROOM: the archive and all its parts are on the disk
\* at once, so twice the room is asked for.  A folder that got its room does run
\* out of it only if other processes wrote, the archive outgrew the headroom (the
\* folder grew after it was sized, or many small files), or it had to be split
\* although the folder itself would fit into one part.
AskedRoomSuffices ==
  pc = "full" =>
    \/ kind = "file" \/ taken > 0
    \/ archive * 10 > total * 11
    \/ archive > MaxPart /\ total <= MaxPart

\* Every part can be sent, none is empty, and one after the other they are the
\* archive (docstring of split_file()).
PartsAreTheArchive ==
  /\ \A k \in DOMAIN cuts :
       cuts[k] - (IF k = 1 THEN 0 ELSE cuts[k - 1]) \in 1..MaxPart
  /\ pc = "send" =>
       IF cuts = <<>> THEN archive <= MaxPart ELSE Split = archive

\* _SPLIT_NOTICE: "cat archive.part* > archive" joins the parts in the order of
\* their names, which is the order they were cut in up to the ninety-ninth, and
\* no longer from the hundredth on.
CatRestoresUpTo99 ==
  pc = "send" =>
    ((\A j, k \in DOMAIN cuts : j < k => NameBefore(j, k)) <=> Len(cuts) <= 99)

--------------------------------------------------------------------------------
(* What the proof of AskedRoomSuffices and PartsAreTheArchive needs besides *)

\* Where the bytes of the disk are.
RoomAccounted ==
  /\ room + taken <= start
  /\ pc \in {"asked", "pack"} => room + taken = start /\ cuts = <<>>
  /\ pc = "archived" => /\ room + taken + archive + Split = start
                        /\ Split <= archive /\ archive > 0
                        /\ cuts # <<>> => archive > MaxPart

\* A folder that is being packed got the room it asked for.
RoomGranted ==
  pc \in {"pack", "archived"} /\ kind = "folder" /\ taken = 0 =>
    start * 10 >= RoomAsked

IInv == /\ TypeOK /\ RoomAccounted /\ RoomGranted
        /\ AskedRoomSuffices /\ PartsAreTheArchive
================================================================================
