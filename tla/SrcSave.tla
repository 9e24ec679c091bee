------------------------------ MODULE SrcSave -------------------------------
(***************************************************************************)
(* The src buffer of core/si_src.c and its file src.saved.                 *)
(*                                                                         *)
(* Everything the analysis knows lies in one buffer at a fixed address:    *)
(* struct src at its start, then what src_buf_get() gave out.  The buffer  *)
(* grows by blocks.  flush_srcfile and exit() write it to                  *)
(* tmp/<src_id>/src.saved, load_srcfile reads such a file back.  A process *)
(* may die at any time; tmp/ stays.                                        *)
(*                                                                         *)
(* clib_open, clib_read and clib_write are not in the repository: they     *)
(* return -1, or else have opened, read or written all that was asked for. *)
(***************************************************************************)
EXTENDS Integers

CONSTANTS
    Id,          \* source ids, the directories tmp/<src_id>
    NoId,        \* no source id
    Prepared,    \* the directories that hold resfiles of the user
    Block,       \* SRC_BUF_BLKSZ, in words
    MaxBuf,      \* SRC_BUF_END - SRC_BUF_START, in words
    SrcLen,      \* sizeof(struct src), in words
    Lens,        \* the sizes asked of src_buf_get, in words
    Loadable,    \* the ids without a src.saved the user gives to load_srcfile
    MayFail,     \* opening, reading or writing a file, or src_init, may fail
    MayDie,      \* the process may die
    MaxVersion   \* bound: changes of the contents

ASSUME SaveAssumption ==
    /\ NoId \notin Id
    /\ Prepared \subseteq Id
    /\ Loadable \subseteq Id
    /\ Block \in Nat \ {0}
    /\ MaxBuf \in Nat
    /\ MaxBuf % Block = 0
    /\ SrcLen \in 1..Block
    /\ Block <= MaxBuf
    /\ Lens \subseteq Nat \ {0}
    /\ MayFail \in BOOLEAN /\ MayDie \in BOOLEAN
    /\ MaxVersion \in Nat

VARIABLES
    run,       \* what the process is doing
    src,       \* what the buffer holds: struct src and all it points to
    cur,       \* buf_cur - buf_start
    total,     \* buf_total_size
    modified,  \* src_modified
    dirs,      \* the directories that exist in tmp/
    logged,    \* the directories that hold a log
    file,      \* file[id]: the src.saved of id
    homeless,  \* do_flush_outfile removed the directory of the id in use
               \* (auxiliary)
    exited     \* what a regular exit had to write, unless an error is
               \* reported or the process dies (auxiliary)

arena == <<src, cur, total, modified>>
vars == <<run, arena, dirs, logged, file, homeless, exited>>

RunLabels == {"down",      \* no process
              "shell",     \* waiting for a command
              "flushing",  \* flush_srcfile truncated the file
              "exiting",   \* exit() truncated the file
              "bug"}       \* stopped by BUG() or by a fault

(* The contents: the id, whether a resfile was added and where the last    *)
(* piece ends count, everything else is a version number.  They are torn   *)
(* when a part of them is missing or was written over.                     *)
Src == [id : Id \cup {NoId}, resfiles : BOOLEAN, version : Nat,
        end : 0..MaxBuf, torn : BOOLEAN]
NoSrc == [id |-> NoId, resfiles |-> FALSE, version |-> 0, end |-> 0,
          torn |-> FALSE]
NewSrc(i) == [id |-> i, resfiles |-> FALSE, version |-> 0, end |-> SrcLen,
              torn |-> FALSE]

(* What s may be when it is not sure how much of struct src is left: the   *)
(* id is the same or that of no directory.                                 *)
Torn(s) == [id : {s.id, NoId}, resfiles : BOOLEAN, version : {s.version},
            end : {s.end}, torn : {TRUE}]

File == [src : Src, len : -1..MaxBuf]
NoFile == [src |-> NoSrc, len |-> -1]
CutFile == [src |-> NoSrc, len |-> 0]

(* What is in a file when n words are written. *)
Prefix(n) == IF n = 0 THEN CutFile ELSE [src |-> src, len |-> n]
Written == Prefix(cur)

Whole(f) == ~ f.src.torn /\ f.src.end <= f.len

(* What a file holds, as far as it goes. *)
Contents(f) == IF Whole(f) THEN {f.src}
               ELSE IF f.len >= SrcLen THEN {[f.src EXCEPT !.torn = TRUE]}
               ELSE Torn(f.src)

TypeOK ==
    /\ run \in RunLabels
    /\ src \in Src
    /\ cur \in 0..MaxBuf
    /\ total \in 0..MaxBuf
    /\ modified \in BOOLEAN
    /\ dirs \subseteq Id
    /\ logged \subseteq dirs
    /\ file \in [Id -> File]
    /\ homeless \in BOOLEAN
    /\ exited \in File

Init ==
    /\ run = "down"
    /\ src = NoSrc
    /\ cur = 0 /\ total = 0
    /\ modified = TRUE
    /\ dirs = Prepared
    /\ logged = {}
    /\ file = [i \in Id |-> NoFile]
    /\ homeless = FALSE
    /\ exited = NoFile

RoundUp(n) == ((n + Block - 1) \div Block) * Block

-----------------------------------------------------------------------------
(* si_src_setup: one block, struct src in it, and a directory of a new id. *)
Start(i) ==
    /\ run = "down"
    /\ i \notin dirs
    /\ src' = NewSrc(i)
    /\ dirs' = dirs \cup {i}
    /\ total' = Block
    /\ cur' = SrcLen
    /\ modified' = TRUE
    /\ run' = "shell"
    /\ homeless' = FALSE
    /\ exited' = NoFile
    /\ UNCHANGED <<logged, file>>

(* One more block is enough, and ends below SRC_BUF_END.                   *)
Room(len) == cur + len <= total + Block /\ total + Block <= MaxBuf

(* The contents with one more piece.  One below the end of struct src lies *)
(* over it.                                                                *)
Added(len, resfile) ==
    LET added == [src EXCEPT !.version = @ + 1, !.resfiles = @ \/ resfile,
                             !.end = cur + len]
    IN  IF cur < SrcLen THEN Torn(added) ELSE {added}

(* src_buf_get, for a resfile or for anything else.                        *)
Get(len, resfile) ==
    /\ run = "shell"
    /\ src.version < MaxVersion
    /\ resfile \/ src.resfiles
    /\ cur + len <= total \/ Room(len)
    /\ cur' = cur + len
    /\ total' = IF cur + len <= total THEN total ELSE total + Block
    /\ modified' = TRUE
    /\ src' \in Added(len, resfile)
    /\ UNCHANGED <<run, dirs, logged, file, homeless, exited>>

(* One more block is not enough, or lies beyond SRC_BUF_END. *)
GetTooMuch(len) ==
    /\ run = "shell"
    /\ src.resfiles
    /\ ~ (cur + len <= total \/ Room(len))
    /\ run' = "bug"
    /\ UNCHANGED <<arena, dirs, logged, file, homeless, exited>>

(* A store into the buffer.  The buffer is never write-protected, so       *)
(* src_modified does not change.                                           *)
Store ==
    /\ run = "shell"
    /\ src.resfiles
    /\ src.version < MaxVersion
    /\ src' = [src EXCEPT !.version = @ + 1]
    /\ UNCHANGED <<run, cur, total, modified, dirs, logged, file, homeless, exited>>

ReadMode ==
    /\ run = "shell"
    /\ modified' = ~ modified
    /\ UNCHANGED <<run, src, cur, total, dirs, logged, file, homeless, exited>>

(* The log of the source is written when its directory exists. *)
Log ==
    /\ run = "shell"
    /\ src.id \in dirs
    /\ logged' = logged \cup {src.id}
    /\ UNCHANGED <<run, arena, dirs, file, homeless, exited>>

-----------------------------------------------------------------------------
(* do_flush_outfile                                                        *)

(* rmdir succeeds on a directory that is empty. *)
Removable(i) == i \notin Prepared /\ i \notin logged /\ file[i] = NoFile
WithoutOwn == {i \in dirs : ~ (i = src.id /\ Removable(i))}
LosesHome == ~ src.resfiles /\ src.id \in dirs /\ Removable(src.id)

(* Faulty: the directory is removed when there is nothing new to write.    *)
FlushEmptyUnmodified ==
    /\ ~ src.resfiles \/ ~ modified
    /\ dirs' = WithoutOwn
    /\ UNCHANGED file

FlushEmpty ==
    /\ ~ src.resfiles
    /\ dirs' = WithoutOwn
    /\ UNCHANGED file

(* Nothing to write, or nowhere to write it, or the file cannot be opened. *)
FlushNothing ==
    /\ src.resfiles
    /\ ~ modified \/ src.id \notin dirs \/ MayFail
    /\ UNCHANGED <<dirs, file>>

(* The file is truncated before it is written. *)
Truncate ==
    /\ src.resfiles
    /\ modified
    /\ src.id \in dirs
    /\ file' = [file EXCEPT ![src.id] = CutFile]
    /\ UNCHANGED dirs

Flush ==
    /\ run = "shell"
    /\ \/ FlushEmpty /\ run' = "shell"
       \/ FlushNothing /\ run' = "shell"
       \/ Truncate /\ run' = "flushing"
    /\ homeless' = (homeless \/ LosesHome)
    /\ UNCHANGED <<arena, logged, exited>>

(* The process is gone, and its memory. *)
Gone ==
    /\ run' = "down"
    /\ src' = NoSrc
    /\ cur' = 0 /\ total' = 0
    /\ modified' = TRUE
    /\ UNCHANGED homeless

ToBeSaved == src.resfiles /\ modified /\ ~ src.torn

(* exit(), and do_flush_outfile as its handler. *)
Exit ==
    /\ run = "shell"
    /\ \/ /\ FlushEmpty \/ FlushNothing
          /\ Gone
          /\ exited' = IF ToBeSaved /\ src.id \notin dirs THEN Written ELSE NoFile
       \/ /\ Truncate
          /\ run' = "exiting"
          /\ exited' = IF ToBeSaved THEN Written ELSE NoFile
          /\ UNCHANGED <<arena, homeless>>
    /\ UNCHANGED logged

(* Faulty: the last word is not written.                                   *)
WriteShort ==
    /\ run \in {"flushing", "exiting"}
    /\ file' = [file EXCEPT ![src.id] = Prefix(cur - 1)]
    /\ IF run = "exiting"
       THEN Gone
       ELSE run' = "shell" /\ UNCHANGED <<arena, homeless>>
    /\ UNCHANGED <<dirs, logged, exited>>

(* A write that fails leaves what it has written. *)
Write ==
    /\ run \in {"flushing", "exiting"}
    /\ \/ /\ file' = [file EXCEPT ![src.id] = Written]
          /\ UNCHANGED exited
       \/ /\ MayFail
          /\ \E n \in 0..cur : file' = [file EXCEPT ![src.id] = Prefix(n)]
          /\ exited' = NoFile
    /\ IF run = "exiting"
       THEN Gone
       ELSE run' = "shell" /\ UNCHANGED <<arena, homeless>>
    /\ UNCHANGED <<dirs, logged>>

(* The process is killed, or crashes: between two commands, or at any      *)
(* place of a write.                                                       *)
Die ==
    /\ run # "down"
    /\ MayDie \/ run = "bug"
    /\ IF run \in {"flushing", "exiting"}
       THEN \E n \in 0..cur : file' = [file EXCEPT ![src.id] = Prefix(n)]
       ELSE UNCHANGED file
    /\ Gone
    /\ exited' = NoFile
    /\ UNCHANGED <<dirs, logged>>

-----------------------------------------------------------------------------
(* load_srcfile, which flushes first, so an empty directory goes.          *)

LoadPossible ==
    /\ run = "shell"
    /\ ~ src.resfiles
    /\ dirs' = WithoutOwn
    /\ UNCHANGED <<modified, logged, file, exited>>

(* No file: only the id changes. *)
LoadNew(i) ==
    /\ LoadPossible
    /\ i \in Loadable
    /\ file[i] = NoFile
    /\ src' = [src EXCEPT !.id = i]
    /\ homeless' = FALSE
    /\ UNCHANGED <<run, cur, total>>

(* The file is not opened, or fstat fails: the id stays, its directory may *)
(* be gone.                                                                *)
LoadNotOpened ==
    /\ LoadPossible
    /\ MayFail
    /\ homeless' = (homeless \/ LosesHome)
    /\ UNCHANGED <<run, src, cur, total>>

(* The file is as long as the buffer can get: BUG().                       *)
LoadTooLong(i) ==
    /\ LoadPossible
    /\ file[i].len >= MaxBuf
    /\ run' = "bug"
    /\ UNCHANGED <<src, cur, total, homeless>>

(* mmap of length 0 fails: "BUG_ON(buf_expanded(readlen))". *)
LoadCut(i) ==
    /\ LoadPossible
    /\ file[i] = CutFile
    /\ run' = "bug"
    /\ src' = NoSrc
    /\ cur' = 0 /\ total' = 0
    /\ UNCHANGED homeless

(* The buffer is empty and as long as the file takes. *)
Remapped(i) ==
    /\ file[i].len \in 1..(MaxBuf - 1)
    /\ total' = RoundUp(file[i].len)
    /\ homeless' = FALSE

(* The file is not read to its end, or src_init fails: buf_cur stays at    *)
(* the start of the buffer, and the shell goes on.                         *)
LoadFails(i) ==
    /\ LoadPossible
    /\ MayFail
    /\ Remapped(i)
    /\ src' \in Torn(file[i].src)
    /\ cur' = 0
    /\ UNCHANGED run

(* Faulty: buf_cur is not set to the end of what was read.                 *)
LoadAtStart(i) ==
    /\ LoadPossible
    /\ Remapped(i)
    /\ src' \in Contents(file[i])
    /\ cur' = 0
    /\ UNCHANGED run

(* A file that ends too early is not noticed, unless a list that is walked *)
(* (188-202) leads out of it.                                              *)
Load(i) ==
    /\ LoadPossible
    /\ Remapped(i)
    /\ src' \in Contents(file[i])
    /\ cur' = file[i].len
    /\ \/ UNCHANGED run
       \/ ~ Whole(file[i]) /\ run' = "bug"

Next ==
    \/ \E i \in Id : Start(i) \/ LoadNew(i) \/ LoadTooLong(i) \/ LoadCut(i)
                     \/ LoadFails(i) \/ Load(i)
    \/ \E len \in Lens : GetTooMuch(len) \/ \E r \in BOOLEAN : Get(len, r)
    \/ Store \/ ReadMode \/ Log \/ LoadNotOpened
    \/ Flush \/ Exit \/ Write \/ Die

Spec == Init /\ [][Next]_vars

-----------------------------------------------------------------------------
(* The buffer consists of whole blocks below SRC_BUF_END, and everything   *)
(* it holds lies below the cursor, in this process or after a restart: no  *)
(* two pieces that src_buf_get gives out overlap.  The exceptions are the  *)
(* contents that are torn: after a load that failed half way (buf_cur is   *)
(* then at the start, and nothing is told about it but the message), and   *)
(* after a load of a file whose write was cut short (it looks like any).   *)
ArenaSound ==
    run \in {"shell", "flushing", "exiting"} =>
        /\ total % Block = 0 /\ cur <= total /\ total <= MaxBuf
        /\ src.torn \/ (SrcLen <= src.end /\ src.end <= cur)

(* As soon as there is something to save, there is a place to save it,     *)
(* whatever other processes flushed, loaded or removed before, and         *)
(* wherever they died.  The exceptions: the session's own directory was    *)
(* removed by its own flush_srcfile or by its own load_srcfile that then   *)
(* did not open a file; or struct src was lost in a load that failed.      *)
HomeExists ==
    src.resfiles => src.id \in dirs \/ homeless \/ (src.torn /\ src.id = NoId)

(* What a regular exit had to save is in the file, whole, so that a load   *)
(* gives it back (do_load_srcfile stops at BUG(), si_src.c:165, for one    *)
(* that fills the buffer to its end), unless an error is reported while    *)
(* the file is opened or written, or the session has lost its directory.   *)
ExitSaves ==
    run = "down" /\ exited # NoFile /\ ~ homeless =>
        file[exited.src.id] = exited /\ Whole(exited)

(* "when process exit, make sure all buf write to output folder"           *)
(* (si_src.c:3), without an exception.                                     *)
ExitSavesAlways ==
    run = "down" /\ exited # NoFile => file[exited.src.id] = exited

=============================================================================
