--------------------------- MODULE SrcSaveProofs ----------------------------
(* Theorems about SrcSave: the arithmetic of the buffer, for every block   *)
(* size, buffer size and request.                                          *)
EXTENDS SrcSave, TLAPS

(* The two facts about products the rest is derived from.                  *)
LEMMA ProductMonotone ==
    ASSUME NEW a \in Nat, NEW b \in Nat, NEW c \in Nat, a <= b
    PROVE  a * c <= b * c
<1>1. (b - a) \in Nat /\ c \in Nat
  OBVIOUS
<1>2. (b - a) * c >= 0
  BY <1>1
<1>3. (b - a) * c = b * c - a * c
  OBVIOUS
<1> QED
  BY <1>2, <1>3

LEMMA Successor ==
    ASSUME NEW a \in Nat, NEW c \in Nat
    PROVE  (a + 1) * c = a * c + c
  OBVIOUS

(* A number is a whole number of blocks when it is a product.              *)
LEMMA ProductIsWhole ==
    ASSUME NEW q \in Nat, NEW c \in Nat \ {0}
    PROVE  q * c \in Nat /\ (q * c) % c = 0
  OBVIOUS

LEMMA WholeIsProduct ==
    ASSUME NEW n \in Nat, NEW c \in Nat \ {0}, n % c = 0
    PROVE  n = (n \div c) * c /\ n \div c \in Nat
  OBVIOUS

LEMMA Quotient ==
    ASSUME NEW n \in Nat, NEW c \in Nat \ {0}
    PROVE  /\ n \div c \in Nat
           /\ (n \div c) * c <= n
           /\ n < (n \div c) * c + c
  OBVIOUS

LEMMA OneMoreBlock ==
    ASSUME NEW n \in Nat, NEW c \in Nat \ {0}, n % c = 0
    PROVE  n + c \in Nat /\ (n + c) % c = 0
<1> DEFINE q == n \div c
<1>1. n = q * c /\ q \in Nat
  BY WholeIsProduct
<1>2. (q + 1) * c = n + c
  BY <1>1, Successor
<1>3. q + 1 \in Nat
  BY <1>1
<1> HIDE DEF q
<1> QED
  BY <1>2, <1>3, ProductIsWhole

(* Less than a block above a whole number of blocks, a whole number of     *)
(* blocks is not above.                                                    *)
LEMMA NoBlockBetween ==
    ASSUME NEW m \in Nat, NEW n \in Nat, NEW c \in Nat \ {0},
           m % c = 0, n % c = 0, m < n + c
    PROVE  m <= n
<1> DEFINE p == m \div c
           q == n \div c
<1>1. m = p * c /\ p \in Nat
  BY WholeIsProduct
<1>2. n = q * c /\ q \in Nat
  BY WholeIsProduct
<1> HIDE DEF p, q
<1>3. CASE p <= q
  BY <1>1, <1>2, <1>3, ProductMonotone
<1>4. CASE q + 1 <= p
  <2>1. (q + 1) * c <= p * c
    BY <1>1, <1>2, <1>4, ProductMonotone
  <2>2. (q + 1) * c = q * c + c
    BY <1>2, Successor
  <2> QED
    BY <1>1, <1>2, <2>1, <2>2
<1> QED
  BY <1>1, <1>2, <1>3, <1>4

(* What a load maps for a file of n words: whole blocks that hold it and   *)
(* that do not pass the end of the buffer.                                 *)
LEMMA RoundUpFits ==
    ASSUME NEW n \in Nat, n <= MaxBuf
    PROVE  /\ RoundUp(n) \in 0..MaxBuf
           /\ RoundUp(n) % Block = 0
           /\ n <= RoundUp(n)
<1> DEFINE q == (n + Block - 1) \div Block
<1>1. Block \in Nat \ {0} /\ MaxBuf \in Nat /\ MaxBuf % Block = 0
  BY SaveAssumption DEF SaveAssumption
<1>2. n + Block - 1 \in Nat
  BY <1>1
<1>3. q \in Nat /\ q * Block <= n + Block - 1 /\ n + Block - 1 < q * Block + Block
  BY <1>1, <1>2, Quotient
<1>4. RoundUp(n) = q * Block
  BY DEF RoundUp
<1> HIDE DEF q
<1>5. RoundUp(n) \in Nat /\ RoundUp(n) % Block = 0
  <2>1. q * Block \in Nat /\ (q * Block) % Block = 0
    BY <1>1, <1>3, ProductIsWhole
  <2> QED
    BY <1>4, <2>1
<1>6. n <= RoundUp(n) /\ RoundUp(n) < n + Block
  BY <1>1, <1>3, <1>4, <1>5
<1>7. RoundUp(n) < MaxBuf + Block
  BY <1>1, <1>5, <1>6
<1>8. RoundUp(n) <= MaxBuf
  BY <1>1, <1>5, <1>7, NoBlockBetween
<1> QED
  BY <1>5, <1>6, <1>8

-----------------------------------------------------------------------------
(* A file holds nothing, or a part of something torn, or at least struct   *)
(* src.                                                                    *)
FilesHoldSrc ==
    \A i \in Id : file[i].len > 0 /\ ~ file[i].src.torn =>
                      SrcLen <= file[i].src.end

SaveInv == TypeOK /\ ArenaSound /\ FilesHoldSrc

Running == {"shell", "flushing", "exiting"}

(* What the buffer's bounds say of one value of its variables.             *)
Sound(s, c, t) ==
    /\ t % Block = 0 /\ c <= t /\ t <= MaxBuf
    /\ s.torn \/ (SrcLen <= s.end /\ s.end <= c)

LEMMA ArenaIsSound ==
    ArenaSound <=> (run \in Running => Sound(src, cur, total))
  BY DEF ArenaSound, Running, Sound

LEMMA ArenaWillBeSound ==
    ArenaSound' <=> (run' \in Running => Sound(src', cur', total'))
  BY DEF ArenaSound, Running, Sound

LEMMA SpecialFiles ==
    /\ NoSrc \in Src
    /\ NoFile \in File
    /\ CutFile \in File
    /\ \A i \in Id : NewSrc(i) \in Src
    /\ TypeOK => \A n \in 0..cur : Prefix(n) \in File
    /\ TypeOK => Written \in File
<1> USE SaveAssumption DEF SaveAssumption
<1>1. NoSrc \in Src
  BY DEF NoSrc, Src
<1>2. NoFile \in File /\ CutFile \in File
  BY <1>1 DEF NoFile, CutFile, File
<1>3. ASSUME NEW i \in Id PROVE NewSrc(i) \in Src
  <2>1. SrcLen \in 0..MaxBuf
    OBVIOUS
  <2> QED
    BY <2>1 DEF NewSrc, Src
<1>4. ASSUME TypeOK, NEW n \in 0..cur PROVE Prefix(n) \in File
  BY <1>2, <1>4 DEF TypeOK, Prefix, File
<1>5. ASSUME TypeOK PROVE Written \in File
  BY <1>4, <1>5 DEF TypeOK, Written
<1> QED
  BY <1>1, <1>2, <1>3, <1>4, <1>5

LEMMA TornTyped ==
    ASSUME NEW s \in Src, NEW t \in Torn(s)
    PROVE  /\ t \in Src /\ t.torn
           /\ t.id \in {s.id, NoId}
  BY DEF Torn, Src

(* What a file holds is what was saved, or is marked as torn.              *)
LEMMA ContentsTyped ==
    ASSUME NEW f \in File, NEW s \in Contents(f)
    PROVE  /\ s \in Src
           /\ s.torn \/ (s = f.src /\ Whole(f))
           /\ s.id = f.src.id \/ (s.torn /\ s.id = NoId)
<1>1. f.src \in Src
  BY DEF File
<1>2. CASE Whole(f)
  BY <1>1, <1>2 DEF Contents
<1>3. CASE ~ Whole(f) /\ f.len >= SrcLen
  <2>1. s = [f.src EXCEPT !.torn = TRUE]
    BY <1>3 DEF Contents
  <2> QED
    BY <1>1, <2>1 DEF Src
<1>4. CASE ~ Whole(f) /\ ~ (f.len >= SrcLen)
  <2>1. s \in Torn(f.src)
    BY <1>4 DEF Contents
  <2> QED
    BY <1>1, <2>1, TornTyped
<1> QED
  BY <1>2, <1>3, <1>4

LEMMA FileTyped ==
    ASSUME TypeOK, NEW i \in Id, NEW f \in File
    PROVE  /\ [file EXCEPT ![i] = f] \in [Id -> File]
           /\ [file EXCEPT ![i] = f][i] = f
           /\ \A j \in Id \ {i} : [file EXCEPT ![i] = f][j] = file[j]
  BY DEF TypeOK

LEMMA SaveInit == Init => SaveInv
<1> SUFFICES ASSUME Init PROVE SaveInv
  OBVIOUS
<1> USE SaveAssumption DEF SaveAssumption
<1>1. TypeOK
  <2>1. file \in [Id -> File] /\ src \in Src /\ exited \in File
    BY SpecialFiles DEF Init
  <2>2. cur \in 0..MaxBuf /\ total \in 0..MaxBuf
    BY DEF Init
  <2> QED
    BY <2>1, <2>2 DEF Init, TypeOK, RunLabels
<1>2. ArenaSound
  BY DEF Init, ArenaSound
<1>3. FilesHoldSrc
  BY DEF Init, FilesHoldSrc, NoFile
<1> QED
  BY <1>1, <1>2, <1>3 DEF SaveInv

LEMMA SaveStart ==
    ASSUME SaveInv, NEW i \in Id, Start(i)
    PROVE  SaveInv'
<1> USE SaveAssumption DEF SaveAssumption
<1>1. TypeOK'
  <2>1. src' \in Src /\ exited' \in File /\ dirs' \subseteq Id
    BY SpecialFiles DEF SaveInv, TypeOK, Start
  <2>2. cur' \in 0..MaxBuf /\ total' \in 0..MaxBuf
    BY DEF Start
  <2> QED
    BY <2>1, <2>2 DEF SaveInv, TypeOK, Start, RunLabels
<1>2. Sound(src', cur', total')
  <2>1. src'.end = SrcLen
    BY DEF Start, NewSrc
  <2>2. Block % Block = 0
    OBVIOUS
  <2> QED
    BY <2>1, <2>2 DEF Start, Sound
<1>3. FilesHoldSrc'
  BY DEF Start, SaveInv, FilesHoldSrc
<1> QED
  BY <1>1, <1>2, <1>3, ArenaWillBeSound DEF SaveInv

(* One more piece, at the cursor: it is marked as torn, or it ends where   *)
(* the cursor goes.                                                        *)
LEMMA AddedTyped ==
    ASSUME NEW s \in Src, s = src, NEW n \in Lens, NEW r \in BOOLEAN,
           cur \in Nat, cur + n \in 0..MaxBuf, NEW t \in Added(n, r)
    PROVE  /\ t \in Src
           /\ t.torn \/ (~ s.torn /\ cur >= SrcLen /\ t.end = cur + n)
           /\ t.torn \/ t.id = s.id
           /\ t.id \in {s.id, NoId}
           /\ s.torn => t.torn
<1> DEFINE added == [src EXCEPT !.version = @ + 1, !.resfiles = @ \/ r,
                                !.end = cur + n]
<1>1. /\ added \in Src /\ added.end = cur + n
      /\ added.torn = s.torn /\ added.id = s.id
  <2>1. s.version + 1 \in Nat /\ (s.resfiles \/ r) \in BOOLEAN
    BY DEF Src
  <2> QED
    BY <2>1 DEF Src
<1>2. t \in IF cur < SrcLen THEN Torn(added) ELSE {added}
  BY DEF Added
<1> HIDE DEF added
<1>3. CASE cur < SrcLen
  BY <1>1, <1>2, <1>3, TornTyped
<1>4. CASE ~ (cur < SrcLen)
  BY <1>1, <1>2, <1>4, SaveAssumption DEF SaveAssumption, Src
<1> QED
  BY <1>3, <1>4

LEMMA SaveGet ==
    ASSUME SaveInv, NEW len \in Lens, NEW r \in BOOLEAN, Get(len, r)
    PROVE  SaveInv'
<1> USE SaveAssumption DEF SaveAssumption
<1>1. /\ len \in Nat \ {0} /\ cur \in Nat /\ total \in Nat /\ run = "shell"
      /\ src \in Src
  BY DEF Get, SaveInv, TypeOK
<1>2. total % Block = 0 /\ cur <= total /\ total <= MaxBuf
  BY <1>1 DEF SaveInv, ArenaSound
<1>3. /\ total' \in 0..MaxBuf /\ total' % Block = 0
      /\ cur' = cur + len /\ cur' \in 0..total'
  <2>1. CASE cur + len <= total
    BY <1>1, <1>2, <2>1 DEF Get
  <2>2. CASE ~ (cur + len <= total)
    <3>1. total' = total + Block /\ Room(len) /\ cur' = cur + len
      BY <2>2 DEF Get
    <3>2. (total + Block) % Block = 0 /\ total + Block \in Nat
      BY <1>1, <1>2, OneMoreBlock
    <3> QED
      BY <1>1, <1>2, <3>1, <3>2 DEF Room
  <2> QED
    BY <2>1, <2>2
<1>4. cur + len \in 0..MaxBuf /\ src' \in Added(len, r)
  BY <1>1, <1>3 DEF Get
<1>5. /\ src' \in Src
      /\ src'.torn \/ (cur >= SrcLen /\ src'.end = cur + len)
  BY <1>1, <1>4, AddedTyped
<1>6. TypeOK'
  BY <1>3, <1>5 DEF SaveInv, TypeOK, Get
<1>7. src'.torn \/ (SrcLen <= src'.end /\ src'.end <= cur')
  BY <1>1, <1>3, <1>5
<1>8. total' <= MaxBuf /\ cur' <= total'
  BY <1>3
<1>9. Sound(src', cur', total')
  <2> HIDE DEF SaveAssumption
  <2> QED
    BY <1>3, <1>7, <1>8, Zenon DEF Sound
<1>10. FilesHoldSrc'
  BY DEF Get, SaveInv, FilesHoldSrc
<1> QED
  BY <1>6, <1>9, <1>10, ArenaWillBeSound DEF SaveInv

(* The steps that leave the buffer's bounds and the files alone.           *)
LEMMA SaveInPlace ==
    ASSUME SaveInv,
           Store \/ ReadMode \/ Log \/ \E len \in Lens : GetTooMuch(len)
    PROVE  SaveInv'
<1>1. /\ src' \in Src /\ src'.torn = src.torn /\ src'.end = src.end
      /\ run = "shell" /\ run' \in {"shell", "bug"}
      /\ UNCHANGED <<cur, total, file, dirs, homeless, exited>>
  BY DEF SaveInv, TypeOK, Store, ReadMode, Log, GetTooMuch, arena, Src
<1>2. modified' \in BOOLEAN /\ logged' \subseteq dirs
  BY DEF SaveInv, TypeOK, Store, ReadMode, Log, GetTooMuch, arena
<1>3. TypeOK'
  BY <1>1, <1>2 DEF SaveInv, TypeOK, RunLabels
<1>4. ArenaSound'
  BY <1>1 DEF SaveInv, ArenaSound
<1>5. FilesHoldSrc'
  BY <1>1 DEF SaveInv, FilesHoldSrc
<1> QED
  BY <1>3, <1>4, <1>5 DEF SaveInv

(* A file becomes what the buffer holds, or a part of it.                  *)
LEMMA SavePrefix ==
    ASSUME SaveInv, NEW n \in 0..cur, run \in Running,
           file' = [file EXCEPT ![src.id] = Prefix(n)]
    PROVE  file' \in [Id -> File] /\ FilesHoldSrc'
<1>1. CASE src.id \in Id
  <2>1. /\ file' \in [Id -> File]
        /\ file'[src.id] = Prefix(n)
        /\ \A j \in Id \ {src.id} : file'[j] = file[j]
    BY <1>1, FileTyped, SpecialFiles DEF SaveInv
  <2>2. Prefix(n).len > 0 => Prefix(n).src = src
    BY DEF Prefix, CutFile
  <2>3. src.torn \/ SrcLen <= src.end
    BY DEF SaveInv, ArenaSound, Running
  <2>4. ASSUME NEW i \in Id, file'[i].len > 0, ~ file'[i].src.torn
        PROVE  SrcLen <= file'[i].src.end
    <3>1. CASE i = src.id
      BY <2>1, <2>2, <2>3, <2>4, <3>1
    <3>2. CASE i # src.id
      BY <2>1, <2>4, <3>2 DEF SaveInv, FilesHoldSrc
    <3> QED
      BY <3>1, <3>2
  <2> QED
    BY <2>1, <2>4 DEF FilesHoldSrc
<1>2. CASE src.id \notin Id
  <2>1. file' = file
    BY <1>2 DEF SaveInv, TypeOK
  <2> QED
    BY <2>1 DEF SaveInv, TypeOK, FilesHoldSrc
<1> QED
  BY <1>1, <1>2

(* The first half of a flush touches a directory or cuts a file.           *)
LEMMA SaveFlushing ==
    ASSUME SaveInv, run = "shell", FlushEmpty \/ FlushNothing \/ Truncate
    PROVE  /\ dirs' \subseteq Id
           /\ logged \subseteq dirs'
           /\ file' \in [Id -> File]
           /\ FilesHoldSrc'
<1>1. CASE FlushEmpty \/ FlushNothing
  BY <1>1 DEF SaveInv, TypeOK, FilesHoldSrc, FlushEmpty, FlushNothing,
     WithoutOwn, Removable
<1>2. CASE Truncate
  <2>1. dirs' = dirs /\ file' = [file EXCEPT ![src.id] = Prefix(0)]
    BY <1>2 DEF Truncate, Prefix
  <2>2. 0 \in 0..cur /\ run \in Running
    BY DEF SaveInv, TypeOK, Running
  <2>3. file' \in [Id -> File] /\ FilesHoldSrc'
    BY <2>1, <2>2, SavePrefix
  <2> QED
    BY <2>1, <2>3 DEF SaveInv, TypeOK
<1> QED
  BY <1>1, <1>2

LEMMA SaveGone ==
    ASSUME SaveInv, Gone
    PROVE  /\ run' = "down" /\ run' \in RunLabels
           /\ src' \in Src /\ modified' \in BOOLEAN /\ homeless' \in BOOLEAN
           /\ cur' \in 0..MaxBuf /\ total' \in 0..MaxBuf
           /\ ArenaSound'
  BY SpecialFiles, SaveAssumption
     DEF Gone, RunLabels, ArenaSound, SaveAssumption, SaveInv, TypeOK

LEMMA SaveFlush ==
    ASSUME SaveInv, Flush
    PROVE  SaveInv'
<1>1. run = "shell" /\ (FlushEmpty \/ FlushNothing \/ Truncate)
  BY DEF Flush
<1>2. /\ dirs' \subseteq Id /\ logged \subseteq dirs'
      /\ file' \in [Id -> File]
      /\ FilesHoldSrc'
  BY <1>1, SaveFlushing
<1>3. run' \in RunLabels /\ UNCHANGED <<src, cur, total, modified, logged, exited>>
  BY DEF Flush, RunLabels, arena
<1>4. homeless' \in BOOLEAN
  BY DEF Flush
<1>5. TypeOK'
  BY <1>2, <1>3, <1>4 DEF SaveInv, TypeOK
<1>6. ArenaSound'
  BY <1>1, <1>3 DEF SaveInv, ArenaSound
<1> QED
  BY <1>2, <1>5, <1>6 DEF SaveInv

LEMMA SaveExit ==
    ASSUME SaveInv, Exit
    PROVE  SaveInv'
<1>1. run = "shell" /\ (FlushEmpty \/ FlushNothing \/ Truncate)
  BY DEF Exit
<1>2. /\ dirs' \subseteq Id /\ logged \subseteq dirs'
      /\ file' \in [Id -> File]
      /\ FilesHoldSrc'
  BY <1>1, SaveFlushing
<1>3. exited' \in File /\ logged' = logged
  BY SpecialFiles DEF SaveInv, Exit
<1>4. CASE Gone
  BY <1>2, <1>3, <1>4, SaveGone DEF SaveInv, TypeOK
<1>5. CASE run' = "exiting" /\ UNCHANGED <<arena, homeless>>
  <2>1. TypeOK'
    BY <1>2, <1>3, <1>5 DEF SaveInv, TypeOK, RunLabels, arena
  <2>2. ArenaSound'
    BY <1>1, <1>5 DEF SaveInv, ArenaSound, arena
  <2> QED
    BY <1>2, <2>1, <2>2 DEF SaveInv
<1> QED
  BY <1>4, <1>5 DEF Exit

LEMMA SaveWrite ==
    ASSUME SaveInv, Write
    PROVE  SaveInv'
<1>1. /\ run \in {"flushing", "exiting"}
      /\ UNCHANGED <<dirs, logged>>
      /\ exited' \in File
  BY SpecialFiles DEF Write, SaveInv, TypeOK
<1>2. PICK n \in 0..cur : file' = [file EXCEPT ![src.id] = Prefix(n)]
  <2>1. cur \in 0..cur
    BY DEF SaveInv, TypeOK
  <2> QED
    BY <2>1 DEF Write, Written
<1>3. file' \in [Id -> File] /\ FilesHoldSrc'
  BY <1>1, <1>2, SavePrefix DEF Running
<1>4. CASE Gone
  BY <1>1, <1>3, <1>4, SaveGone DEF SaveInv, TypeOK
<1>5. CASE run' = "shell" /\ UNCHANGED <<arena, homeless>>
  <2>1. TypeOK'
    BY <1>1, <1>3, <1>5 DEF SaveInv, TypeOK, RunLabels, arena
  <2>2. ArenaSound'
    BY <1>1, <1>5 DEF SaveInv, ArenaSound, arena
  <2> QED
    BY <1>3, <2>1, <2>2 DEF SaveInv
<1> QED
  BY <1>4, <1>5 DEF Write

LEMMA SaveDie ==
    ASSUME SaveInv, Die
    PROVE  SaveInv'
<1>1. Gone /\ exited' = NoFile /\ UNCHANGED <<dirs, logged>>
  BY DEF Die
<1>2. file' \in [Id -> File] /\ FilesHoldSrc'
  <2>1. CASE run \in {"flushing", "exiting"}
    <3>1. PICK n \in 0..cur : file' = [file EXCEPT ![src.id] = Prefix(n)]
      BY <2>1 DEF Die
    <3> QED
      BY <2>1, <3>1, SavePrefix DEF Running
  <2>2. CASE run \notin {"flushing", "exiting"}
    BY <2>2 DEF Die, SaveInv, TypeOK, FilesHoldSrc
  <2> QED
    BY <2>1, <2>2
<1> QED
  BY <1>1, <1>2, SaveGone, SpecialFiles DEF SaveInv, TypeOK

(* The loads that leave the buffer as it is, or empty.                     *)
LEMMA SaveNotLoaded ==
    ASSUME SaveInv,
           LoadNotOpened \/ \E i \in Id : LoadNew(i) \/ LoadTooLong(i) \/ LoadCut(i)
    PROVE  SaveInv'
<1>1. /\ run = "shell" /\ dirs' \subseteq Id /\ logged \subseteq dirs'
      /\ UNCHANGED <<modified, logged, file, exited>>
  BY DEF LoadNew, LoadCut, LoadNotOpened, LoadTooLong, LoadPossible, WithoutOwn,
     Removable, SaveInv, TypeOK
<1>2. FilesHoldSrc'
  BY <1>1 DEF SaveInv, FilesHoldSrc
<1>3. homeless' \in BOOLEAN
  BY DEF LoadNew, LoadCut, LoadNotOpened, LoadTooLong, SaveInv, TypeOK
<1>4. CASE LoadNotOpened \/ \E i \in Id : LoadNew(i) \/ LoadTooLong(i)
  <2>1. /\ src' \in Src /\ src'.end = src.end /\ src'.torn = src.torn
        /\ run' \in {"shell", "bug"} /\ UNCHANGED <<cur, total>>
    BY <1>1, <1>4 DEF LoadNew, LoadNotOpened, LoadTooLong, SaveInv, TypeOK, Src
  <2>2. TypeOK' /\ ArenaSound'
    BY <1>1, <1>3, <2>1 DEF SaveInv, TypeOK, ArenaSound, RunLabels
  <2> QED
    BY <1>2, <2>2 DEF SaveInv
<1>5. CASE \E i \in Id : LoadCut(i)
  <2>1. run' = "bug" /\ src' = NoSrc /\ cur' = 0 /\ total' = 0
    BY <1>5 DEF LoadCut
  <2>2. TypeOK' /\ ArenaSound'
    BY <1>1, <1>3, <2>1, SpecialFiles, SaveAssumption
       DEF SaveInv, TypeOK, ArenaSound, RunLabels, SaveAssumption
  <2> QED
    BY <1>2, <2>2 DEF SaveInv
<1> QED
  BY <1>4, <1>5

(* The loads that map a file: what they read is whole and below the        *)
(* cursor, or marked as torn.                                              *)
LEMMA SaveLoad ==
    ASSUME SaveInv, NEW i \in Id, LoadFails(i) \/ Load(i)
    PROVE  SaveInv'
<1>1. /\ run = "shell" /\ dirs' \subseteq Id /\ logged \subseteq dirs'
      /\ UNCHANGED <<modified, logged, file, exited>>
  BY DEF LoadFails, Load, LoadPossible, WithoutOwn, Removable, SaveInv, TypeOK
<1>2. FilesHoldSrc'
  BY <1>1 DEF SaveInv, FilesHoldSrc
<1>3. /\ file[i] \in File /\ file[i].src \in Src
      /\ file[i].len \in 1..(MaxBuf - 1) /\ file[i].len \in Nat
      /\ file[i].len <= MaxBuf
      /\ total' = RoundUp(file[i].len)
      /\ homeless' = FALSE /\ run' \in {"shell", "bug"}
  BY <1>1, SaveAssumption
     DEF LoadFails, Load, Remapped, SaveInv, TypeOK, File, SaveAssumption
<1>4. /\ total' \in 0..MaxBuf /\ total' % Block = 0
      /\ file[i].len <= total'
  BY <1>3, RoundUpFits
<1>5. /\ src' \in Src /\ cur' \in 0..MaxBuf /\ cur' <= total'
      /\ src'.torn \/ (SrcLen <= src'.end /\ src'.end <= cur')
  <2>1. CASE LoadFails(i)
    <3>1. src' \in Torn(file[i].src) /\ cur' = 0
      BY <2>1 DEF LoadFails
    <3>2. src' \in Src /\ src'.torn
      BY <1>3, <3>1, TornTyped
    <3> QED
      BY <1>4, <3>1, <3>2, SaveAssumption DEF SaveAssumption
  <2>2. CASE Load(i)
    <3>1. src' \in Contents(file[i]) /\ cur' = file[i].len
      BY <2>2 DEF Load
    <3>2. src' \in Src /\ (src'.torn \/ (src' = file[i].src /\ Whole(file[i])))
      BY <1>3, <3>1, ContentsTyped
    <3>3. ASSUME ~ src'.torn
          PROVE  SrcLen <= src'.end /\ src'.end <= cur'
      BY <1>3, <3>1, <3>2, <3>3 DEF Whole, SaveInv, FilesHoldSrc
    <3>4. cur' \in 0..MaxBuf /\ cur' <= total'
      BY <1>3, <1>4, <3>1, SaveAssumption DEF SaveAssumption
    <3> QED
      BY <3>2, <3>3, <3>4
  <2> QED
    BY <2>1, <2>2
<1>6. TypeOK'
  BY <1>1, <1>3, <1>4, <1>5 DEF SaveInv, TypeOK, RunLabels
<1>7. total' <= MaxBuf
  BY <1>4
<1>8. Sound(src', cur', total')
  BY <1>4, <1>5, <1>7, Zenon DEF Sound
<1> QED
  BY <1>2, <1>6, <1>8, ArenaWillBeSound DEF SaveInv

LEMMA SaveStep == SaveInv /\ [Next]_vars => SaveInv'
<1> SUFFICES ASSUME SaveInv, [Next]_vars PROVE SaveInv'
  OBVIOUS
<1>1. CASE \E i \in Id : Start(i)
  BY <1>1, SaveStart
<1>2. CASE LoadNotOpened \/ \E i \in Id : LoadNew(i) \/ LoadTooLong(i) \/ LoadCut(i)
  BY <1>2, SaveNotLoaded
<1>3. CASE \E i \in Id : LoadFails(i) \/ Load(i)
  BY <1>3, SaveLoad
<1>4. CASE \E len \in Lens : \E r \in BOOLEAN : Get(len, r)
  BY <1>4, SaveGet
<1>5. CASE Store \/ ReadMode \/ Log \/ \E len \in Lens : GetTooMuch(len)
  BY <1>5, SaveInPlace
<1>6. CASE Flush
  BY <1>6, SaveFlush
<1>7. CASE Exit
  BY <1>7, SaveExit
<1>8. CASE Write
  BY <1>8, SaveWrite
<1>9. CASE Die
  BY <1>9, SaveDie
<1>10. CASE UNCHANGED vars
  BY <1>10 DEF SaveInv, TypeOK, ArenaSound, FilesHoldSrc, vars, arena
<1> QED
  BY <1>1, <1>2, <1>3, <1>4, <1>5, <1>6, <1>7, <1>8, <1>9, <1>10 DEF Next

LEMMA SaveAlways == Spec => []SaveInv
<1> QED
  BY SaveInit, SaveStep, PTL DEF Spec

(* Every variable keeps its type, whatever the sizes and the ids.          *)
THEOREM SaveTypeCorrect == Spec => []TypeOK
<1>1. SaveInv => TypeOK
  BY DEF SaveInv
<1> QED
  BY <1>1, SaveAlways, PTL

(* src_buf_get and load_srcfile keep the buffer in whole blocks below      *)
(* SRC_BUF_END, and what it holds below the cursor, for every block and    *)
(* buffer size and every history of crashes and errors, unless a load      *)
(* failed half way or found a file that was cut short.                     *)
THEOREM SaveArenaSound == Spec => []ArenaSound
<1>1. SaveInv => ArenaSound
  BY DEF SaveInv
<1> QED
  BY <1>1, SaveAlways, PTL

-----------------------------------------------------------------------------
(* A place to save to.  An id without a saved file that the user loads has *)
(* a directory (load_srcfile takes any name for an id and makes none).     *)
HomeKept == Loadable \subseteq Prepared

(* The session has a directory, or is known to have lost it.               *)
Home == src.id \in dirs \/ homeless \/ (src.torn /\ src.id = NoId)

AtHome ==
    /\ run \in Running \/ src.resfiles => Home
    /\ run \in {"flushing", "exiting"} => src.id \in dirs

(* A file is in its directory, and is of the id it says.                   *)
FilesAtHome ==
    \A i \in Id : /\ file[i] # NoFile => i \in dirs
                  /\ file[i].len > 0 => file[i].src.id = i

(* What an exit is about to write.                                         *)
ExitUnderWay ==
    /\ run = "exiting" /\ exited # NoFile => exited = Written /\ ~ src.torn
    /\ ExitSaves

HomeInv == /\ SaveInv
           /\ Prepared \subseteq dirs
           /\ AtHome /\ FilesAtHome /\ ExitUnderWay

LEMMA HomeInit == Init => HomeInv
<1> SUFFICES ASSUME Init PROVE HomeInv
  OBVIOUS
<1>1. SaveInv
  BY SaveInit
<1>2. AtHome /\ FilesAtHome /\ ExitUnderWay
  BY DEF Init, AtHome, FilesAtHome, ExitUnderWay, ExitSaves, NoFile, NoSrc, Running
<1> QED
  BY <1>1, <1>2, SaveAssumption DEF Init, HomeInv, SaveAssumption

(* A directory that is removed is empty, and none that is prepared.        *)
LEMMA WithoutOwnKeeps ==
    ASSUME HomeInv, dirs' = WithoutOwn
    PROVE  /\ Prepared \subseteq dirs'
           /\ \A i \in Id : file[i] # NoFile => i \in dirs'
           /\ src.id \in dirs => src.id \in dirs' \/ Removable(src.id)
  BY DEF HomeInv, FilesAtHome, WithoutOwn, Removable

(* What a regular exit finds to save is whole, and is no empty file.       *)
LEMMA SavedIsWhole ==
    ASSUME SaveInv, run \in Running, ~ src.torn
    PROVE  /\ Written # NoFile /\ Written.src = src /\ Written.len = cur
           /\ Whole(Written)
<1>1. cur > 0 /\ src.end <= cur
  BY SaveAssumption DEF SaveInv, TypeOK, ArenaSound, Running, SaveAssumption, Src
<1>2. Written = [src |-> src, len |-> cur]
  BY <1>1 DEF Written, Prefix
<1> QED
  BY <1>1, <1>2 DEF NoFile, Whole

(* A file of length 0 is no missing file, and a prefix says whose it is.   *)
LEMMA PrefixAtHome ==
    ASSUME HomeInv, NEW n \in 0..cur, src.id \in dirs, dirs' = dirs,
           file' = [file EXCEPT ![src.id] = Prefix(n)]
    PROVE  FilesAtHome' /\ file'[src.id] = Prefix(n)
<1>1. src.id \in Id /\ file \in [Id -> File]
  BY DEF HomeInv, SaveInv, TypeOK
<1>2. /\ file'[src.id] = Prefix(n)
      /\ \A j \in Id \ {src.id} : file'[j] = file[j]
  BY <1>1
<1>3. Prefix(n).len > 0 => Prefix(n).src = src
  BY DEF Prefix, CutFile
<1> QED
  BY <1>1, <1>2, <1>3 DEF HomeInv, FilesAtHome

LEMMA HomeOrdinary ==
    ASSUME HomeInv,
           \/ \E i \in Id : Start(i)
           \/ \E len \in Lens : GetTooMuch(len)
           \/ Store \/ ReadMode \/ Log
    PROVE  /\ Prepared \subseteq dirs'
           /\ AtHome' /\ FilesAtHome' /\ ExitUnderWay'
<1>1. /\ run' \in {"shell", "bug"} /\ file' = file /\ dirs \subseteq dirs'
      /\ Home'
  <2>1. CASE \E i \in Id : Start(i)
    BY <2>1 DEF Start, NewSrc, Home
  <2>2. CASE ~ \E i \in Id : Start(i)
    <3>1. /\ run = "shell" /\ UNCHANGED <<file, dirs, homeless>>
          /\ src'.id = src.id /\ src'.torn = src.torn
      BY <2>2 DEF GetTooMuch, Store, ReadMode, Log, HomeInv, SaveInv, TypeOK, Src,
         arena
    <3> QED
      BY <2>2, <3>1 DEF HomeInv, AtHome, Home, Running, GetTooMuch, Store, ReadMode,
         Log
  <2> QED
    BY <2>1, <2>2
<1> QED
  BY <1>1 DEF HomeInv, AtHome, FilesAtHome, ExitUnderWay, ExitSaves

LEMMA HomeGet ==
    ASSUME HomeInv, NEW len \in Lens, NEW r \in BOOLEAN, Get(len, r)
    PROVE  /\ Prepared \subseteq dirs'
           /\ AtHome' /\ FilesAtHome' /\ ExitUnderWay'
<1>1. /\ run = "shell" /\ UNCHANGED <<run, file, dirs, homeless>>
      /\ cur' = cur + len /\ src' \in Added(len, r)
      /\ src \in Src /\ cur \in Nat
  BY DEF Get, HomeInv, SaveInv, TypeOK
<1>2. cur + len \in 0..MaxBuf
  <2>1. SaveInv'
    BY SaveGet DEF HomeInv
  <2> QED
    BY <1>1, <2>1 DEF SaveInv, TypeOK
<1>3. /\ src'.torn \/ src'.id = src.id
      /\ src'.id \in {src.id, NoId}
      /\ src.torn => src'.torn
  BY <1>1, <1>2, AddedTyped
<1>4. Home'
  BY <1>1, <1>3 DEF HomeInv, AtHome, Home, Running
<1> QED
  BY <1>1, <1>4 DEF HomeInv, AtHome, FilesAtHome, ExitUnderWay, ExitSaves

LEMMA HomeFlush ==
    ASSUME HomeInv, Flush
    PROVE  /\ Prepared \subseteq dirs'
           /\ AtHome' /\ FilesAtHome' /\ ExitUnderWay'
<1>1. /\ run = "shell" /\ run' \in {"shell", "flushing"} /\ src' = src
      /\ homeless' = (homeless \/ LosesHome) /\ homeless \in BOOLEAN
      /\ Home
  BY DEF Flush, arena, HomeInv, SaveInv, TypeOK, AtHome, Running
<1>2. ExitUnderWay'
  BY <1>1 DEF ExitUnderWay, ExitSaves
<1>3. CASE FlushEmpty /\ run' = "shell"
  <2>1. dirs' = WithoutOwn /\ file' = file /\ ~ src.resfiles
    BY <1>3 DEF FlushEmpty
  <2>2. Home'
    BY <1>1, <2>1, WithoutOwnKeeps DEF Home, LosesHome
  <2> QED
    BY <1>1, <1>2, <1>3, <2>1, <2>2, WithoutOwnKeeps
       DEF HomeInv, AtHome, FilesAtHome
<1>4. CASE FlushNothing /\ run' = "shell"
  <2>1. dirs' = dirs /\ file' = file
    BY <1>4 DEF FlushNothing
  <2> QED
    BY <1>1, <1>2, <1>4, <2>1 DEF HomeInv, AtHome, Home, FilesAtHome
<1>5. CASE Truncate /\ run' = "flushing"
  <2>1. /\ dirs' = dirs /\ src.id \in dirs
        /\ file' = [file EXCEPT ![src.id] = Prefix(0)]
        /\ 0 \in 0..cur
    BY <1>5 DEF Truncate, Prefix, HomeInv, SaveInv, TypeOK
  <2>2. FilesAtHome'
    BY <2>1, PrefixAtHome
  <2> QED
    BY <1>1, <1>2, <2>1, <2>2 DEF HomeInv, AtHome, Home
<1> QED
  BY <1>3, <1>4, <1>5 DEF Flush

LEMMA HomeExit ==
    ASSUME HomeInv, Exit
    PROVE  /\ Prepared \subseteq dirs'
           /\ AtHome' /\ FilesAtHome' /\ ExitUnderWay'
<1>1. run = "shell" /\ Home /\ run \in Running
  BY DEF Exit, HomeInv, AtHome, Running
<1>2. CASE (FlushEmpty \/ FlushNothing) /\ Gone
  <2>1. /\ Prepared \subseteq dirs' /\ file' = file
        /\ \A i \in Id : file[i] # NoFile => i \in dirs'
    BY <1>2, WithoutOwnKeeps
       DEF FlushEmpty, FlushNothing, HomeInv, FilesAtHome
  <2>2. AtHome'
    BY <1>2 DEF Gone, AtHome, Running, NoSrc
  <2>3. FilesAtHome'
    BY <2>1 DEF HomeInv, FilesAtHome
  <2>4. exited' # NoFile => homeless'
    <3>1. CASE Truncate /\ run' = "exiting"
      BY <1>2, <3>1 DEF Gone
    <3>2. CASE exited' = IF ToBeSaved /\ src.id \notin dirs THEN Written ELSE NoFile
      BY <1>1, <1>2, <3>2 DEF ToBeSaved, Home, Gone
    <3> QED
      BY <3>1, <3>2 DEF Exit
  <2>5. ExitUnderWay'
    BY <1>2, <2>4 DEF ExitUnderWay, ExitSaves, Gone
  <2> QED
    BY <2>1, <2>2, <2>3, <2>5
<1>3. CASE Truncate /\ run' = "exiting" /\ UNCHANGED <<arena, homeless>>
           /\ exited' = IF ToBeSaved THEN Written ELSE NoFile
  <2>1. /\ dirs' = dirs /\ src.id \in dirs
        /\ file' = [file EXCEPT ![src.id] = Prefix(0)]
        /\ 0 \in 0..cur
    BY <1>3 DEF Truncate, Prefix, HomeInv, SaveInv, TypeOK
  <2>2. FilesAtHome'
    BY <2>1, PrefixAtHome
  <2>3. Written' = Written /\ src' = src
    BY <1>3 DEF Written, Prefix, arena
  <2>4. ExitUnderWay'
    BY <1>3, <2>3 DEF ExitUnderWay, ExitSaves, ToBeSaved
  <2>5. AtHome'
    BY <1>3, <2>1, <2>3 DEF AtHome, Home
  <2> QED
    BY <2>1, <2>2, <2>4, <2>5 DEF HomeInv
<1> QED
  BY <1>2, <1>3 DEF Exit

LEMMA HomeWrite ==
    ASSUME HomeInv, Write
    PROVE  /\ Prepared \subseteq dirs'
           /\ AtHome' /\ FilesAtHome' /\ ExitUnderWay'
<1>1. /\ run \in {"flushing", "exiting"} /\ run \in Running /\ src.id \in dirs
      /\ dirs' = dirs /\ cur \in 0..cur
  BY DEF Write, HomeInv, AtHome, Running, SaveInv, TypeOK
<1>2. PICK n \in 0..cur :
          /\ file' = [file EXCEPT ![src.id] = Prefix(n)]
          /\ (exited' = exited /\ Prefix(n) = Written) \/ exited' = NoFile
  BY <1>1 DEF Write, Written
<1>3. FilesAtHome' /\ file'[src.id] = Prefix(n)
  BY <1>1, <1>2, PrefixAtHome
<1>4. CASE run = "exiting" /\ Gone
  <2>1. AtHome'
    BY <1>4 DEF Gone, AtHome, Running, NoSrc
  <2>2. ASSUME exited' # NoFile
        PROVE  file'[exited'.src.id] = exited' /\ Whole(exited')
    <3>1. exited' = exited /\ Prefix(n) = Written /\ exited # NoFile
      BY <1>2, <2>2
    <3>2. exited = Written /\ ~ src.torn
      BY <1>4, <3>1 DEF HomeInv, ExitUnderWay
    <3>3. Written.src = src /\ Whole(Written)
      BY <1>1, <3>2, SavedIsWhole DEF HomeInv
    <3> QED
      BY <1>3, <3>1, <3>2, <3>3
  <2>3. ExitUnderWay'
    BY <1>4, <2>2 DEF ExitUnderWay, ExitSaves, Gone
  <2> QED
    BY <1>1, <1>3, <2>1, <2>3 DEF HomeInv
<1>5. CASE run' = "shell" /\ UNCHANGED <<arena, homeless>>
  BY <1>1, <1>3, <1>5 DEF HomeInv, AtHome, Home, ExitUnderWay, ExitSaves, arena
<1> QED
  BY <1>4, <1>5 DEF Write

LEMMA HomeDie ==
    ASSUME HomeInv, Die
    PROVE  /\ Prepared \subseteq dirs'
           /\ AtHome' /\ FilesAtHome' /\ ExitUnderWay'
<1>1. Gone /\ exited' = NoFile /\ dirs' = dirs
  BY DEF Die
<1>2. FilesAtHome'
  <2>1. CASE run \in {"flushing", "exiting"}
    <3>1. PICK n \in 0..cur : file' = [file EXCEPT ![src.id] = Prefix(n)]
      BY <2>1 DEF Die
    <3>2. src.id \in dirs
      BY <2>1 DEF HomeInv, AtHome
    <3> QED
      BY <1>1, <3>1, <3>2, PrefixAtHome
  <2>2. CASE run \notin {"flushing", "exiting"}
    BY <1>1, <2>2 DEF Die, HomeInv, FilesAtHome
  <2> QED
    BY <2>1, <2>2
<1>3. AtHome' /\ ExitUnderWay'
  BY <1>1 DEF Gone, AtHome, Running, NoSrc, ExitUnderWay, ExitSaves
<1> QED
  BY <1>1, <1>2, <1>3 DEF HomeInv

LEMMA HomeLoad ==
    ASSUME HomeKept, HomeInv,
           LoadNotOpened \/ \E i \in Id :
               LoadNew(i) \/ LoadTooLong(i) \/ LoadCut(i) \/ LoadFails(i) \/ Load(i)
    PROVE  /\ Prepared \subseteq dirs'
           /\ AtHome' /\ FilesAtHome' /\ ExitUnderWay'
<1>1. /\ run = "shell" /\ dirs' = WithoutOwn /\ UNCHANGED <<file, exited>>
      /\ ~ src.resfiles /\ Home /\ file \in [Id -> File]
      /\ homeless \in BOOLEAN
  BY DEF LoadNew, LoadCut, LoadNotOpened, LoadTooLong, LoadFails, Load,
     LoadPossible, HomeInv, SaveInv, TypeOK, AtHome, Running
<1>2. Prepared \subseteq dirs' /\ \A j \in Id : file[j] # NoFile => j \in dirs'
  BY <1>1, WithoutOwnKeeps
<1>3. FilesAtHome'
  BY <1>1, <1>2 DEF HomeInv, FilesAtHome
<1>4. run' \in {"shell", "bug"} /\ (Home' \/ (run' = "bug" /\ ~ src'.resfiles))
  <2>1. CASE LoadNotOpened
    <3>1. /\ run' = run /\ src' = src /\ homeless' = (homeless \/ LosesHome)
      BY <2>1 DEF LoadNotOpened
    <3> QED
      BY <1>1, <3>1, WithoutOwnKeeps DEF Home, LosesHome
  <2>2. CASE \E i \in Id : LoadNew(i)
    <3>1. PICK i \in Id : LoadNew(i)
      BY <2>2
    <3>2. src'.id = i /\ i \in Prepared /\ run' = run
      BY <3>1 DEF LoadNew, HomeKept, HomeInv, SaveInv, TypeOK, Src
    <3> QED
      BY <1>1, <1>2, <3>2 DEF Home
  <2>3. CASE \E i \in Id : LoadTooLong(i) \/ LoadCut(i)
    BY <1>1, <2>3 DEF LoadTooLong, LoadCut, NoSrc
  <2>4. CASE \E i \in Id : LoadFails(i) \/ Load(i)
    <3>1. PICK i \in Id : LoadFails(i) \/ Load(i)
      BY <2>4
    <3>2. /\ file[i] \in File /\ file[i].src \in Src
          /\ file[i].len > 0 /\ file[i].src.id = i /\ file[i] # NoFile
      BY <1>1, <3>1, SaveAssumption
         DEF LoadFails, Load, Remapped, HomeInv, FilesAtHome, NoFile, File,
             SaveAssumption
    <3>3. run' \in {"shell", "bug"}
      BY <1>1, <3>1 DEF LoadFails, Load
    <3>4. src'.id = i \/ (src'.torn /\ src'.id = NoId)
      <4>1. CASE LoadFails(i)
        BY <3>2, <4>1, TornTyped DEF LoadFails
      <4>2. CASE Load(i)
        BY <3>2, <4>2, ContentsTyped DEF Load
      <4> QED
        BY <3>1, <4>1, <4>2
    <3> QED
      BY <1>2, <3>2, <3>3, <3>4 DEF Home
  <2> QED
    BY <2>1, <2>2, <2>3, <2>4
<1>5. AtHome'
  BY <1>4 DEF AtHome, Running
<1> QED
  BY <1>1, <1>2, <1>3, <1>4, <1>5 DEF HomeInv, ExitUnderWay, ExitSaves

LEMMA HomeStep == HomeKept /\ HomeInv /\ [Next]_vars => HomeInv'
<1> SUFFICES ASSUME HomeKept, HomeInv, [Next]_vars PROVE HomeInv'
  OBVIOUS
<1>1. SaveInv'
  BY SaveStep DEF HomeInv
<1>2. CASE \/ \E i \in Id : Start(i)
           \/ \E len \in Lens : GetTooMuch(len)
           \/ Store \/ ReadMode \/ Log
  BY <1>1, <1>2, HomeOrdinary DEF HomeInv
<1>3. CASE \E len \in Lens : \E r \in BOOLEAN : Get(len, r)
  BY <1>1, <1>3, HomeGet DEF HomeInv
<1>4. CASE Flush
  BY <1>1, <1>4, HomeFlush DEF HomeInv
<1>5. CASE Exit
  BY <1>1, <1>5, HomeExit DEF HomeInv
<1>6. CASE Write
  BY <1>1, <1>6, HomeWrite DEF HomeInv
<1>7. CASE Die
  BY <1>1, <1>7, HomeDie DEF HomeInv
<1>8. CASE LoadNotOpened \/ \E i \in Id :
               LoadNew(i) \/ LoadTooLong(i) \/ LoadCut(i) \/ LoadFails(i) \/ Load(i)
  BY <1>1, <1>8, HomeLoad DEF HomeInv
<1>9. CASE UNCHANGED vars
  BY <1>1, <1>9 DEF HomeInv, AtHome, Home, FilesAtHome, ExitUnderWay, ExitSaves,
     Written, Prefix, vars, arena
<1> QED
  BY <1>2, <1>3, <1>4, <1>5, <1>6, <1>7, <1>8, <1>9 DEF Next

LEMMA HomeAlways == HomeKept /\ Spec => []HomeInv
<1>1. HomeKept /\ Init /\ [][Next]_vars => []HomeInv
  <2> SUFFICES ASSUME HomeKept PROVE Init /\ [][Next]_vars => []HomeInv
    OBVIOUS
  <2> QED
    BY HomeInit, HomeStep, PTL
<1> QED
  BY <1>1 DEF Spec

(* As soon as a resfile was added there is a directory to save the source  *)
(* in: nothing that other sessions do, wherever they die, and no step of   *)
(* this one removes it, but a flush or a failing load before the first     *)
(* parse; a load that fails half way may lose the id.                      *)
THEOREM SaveHomeExists == HomeKept /\ Spec => []HomeExists
<1>1. HomeInv => HomeExists
  BY DEF HomeInv, AtHome, Home, HomeExists
<1> QED
  BY <1>1, HomeAlways, PTL

(* What a regular exit had to save is in the file when the process is      *)
(* gone, whole, and stays in it until the next one starts, unless an error *)
(* was reported or the session had lost its directory.                     *)
THEOREM SaveExitSaves == HomeKept /\ Spec => []ExitSaves
<1>1. HomeInv => ExitSaves
  BY DEF HomeInv, ExitUnderWay
<1> QED
  BY <1>1, HomeAlways, PTL

=============================================================================
