-------------------------------- MODULE Backup --------------------------------
(***************************************************************************)
(* Engine.backup and restore_backup (backup.py) beside commits and beside  *)
(* the HTTP audit trail, which lies in the database directory and is       *)
(* appended to without the engine lock.  What a file holds is the number   *)
(* of its last change.                                                     *)
(***************************************************************************)
EXTENDS Naturals, Sequences, SequencesExt

CONSTANTS
  Nothing,   \* no archive, nothing restored, a restore that was refused
  MaxWrites  \* bound: commits, and lines of the audit trail

WritesAssumption == MaxWrites \in Nat

\* As _files sorts them.
Files == <<"http-audit.jsonl", "pages.dat", "state.json">>
Names == ToSet(Files)

VARIABLES
  content,    \* of each file
  job,        \* of the thread that makes a backup
  temporary,  \* the archive being written: [size, manifest, copied]
  archive,    \* the archive at the destination
  restored,   \* the directory made from it
  taken       \* history: the version that the engine had when the archive was made

vars == <<content, job, temporary, archive, restored, taken>>

NoJob == [at |-> "idle", next |-> 1]
Empty == [n \in Names |-> 0]
Fresh == [size |-> Empty, manifest |-> Empty, copied |-> Empty]

Init ==
  /\ content = Empty /\ job = NoJob /\ temporary = Fresh
  /\ archive = Nothing /\ restored = Nothing /\ taken = 0

\* Mutant of LockFree: a commit does not wait for the backup.
LockFreeAlways == TRUE

LockFree == job.at = "idle"

\* A commit appends to the page log; it has the lock.
Commit ==
  /\ LockFree /\ content["pages.dat"] < MaxWrites
  /\ content' = [content EXCEPT !["pages.dat"] = @ + 1]
  /\ UNCHANGED <<job, temporary, archive, restored, taken>>

\* NovaHandler._audit, of any request, at any time.
Audit ==
  /\ content["http-audit.jsonl"] < MaxWrites
  /\ content' = [content EXCEPT !["http-audit.jsonl"] = @ + 1]
  /\ UNCHANGED <<job, temporary, archive, restored, taken>>

\* Engine.backup takes the lock and checkpoints; an old temporary file is removed.
Begin ==
  /\ job.at = "idle"
  /\ content' = [content EXCEPT !["state.json"] = content["pages.dat"]]
  /\ job' = [NoJob EXCEPT !.at = "stat"]
  /\ temporary' = Fresh
  /\ UNCHANGED <<archive, restored, taken>>

\* On to the next file at one stage, or after the last one to another.
Advance(again, after) ==
  job' = IF job.next < Len(Files) THEN [at |-> again, next |-> job.next + 1]
         ELSE [at |-> after, next |-> 1]

\* The size of one file.
Stat ==
  /\ job.at = "stat"
  /\ temporary' = [temporary EXCEPT !.size[Files[job.next]] = content[Files[job.next]]]
  /\ job' = [job EXCEPT !.at = "hash"]
  /\ UNCHANGED <<content, archive, restored, taken>>

\* Its digest, which completes its entry in the manifest.
Hash ==
  /\ job.at = "hash"
  /\ temporary' = [temporary EXCEPT !.manifest[Files[job.next]] = content[Files[job.next]]]
  /\ Advance("stat", "copy")
  /\ UNCHANGED <<content, archive, restored, taken>>

\* One file into the archive, which reads it again.
Copy ==
  /\ job.at = "copy"
  /\ temporary' = [temporary EXCEPT !.copied[Files[job.next]] = content[Files[job.next]]]
  /\ Advance("copy", "publish")
  /\ UNCHANGED <<content, archive, restored, taken>>

\* The complete archive replaces the one at the destination, and the lock is released.
Publish ==
  /\ job.at = "publish"
  /\ archive' = temporary /\ taken' = content["pages.dat"]
  /\ job' = NoJob
  /\ UNCHANGED <<content, temporary, restored>>

\* The process ends in the middle: the destination is as it was.
Crash ==
  /\ job.at # "idle"
  /\ job' = NoJob
  /\ UNCHANGED <<content, temporary, archive, restored, taken>>

\* Every file of the stage has the size and the hash of the manifest.
Verified(a) == a.copied = a.size /\ a.copied = a.manifest

\* restore_backup into a new directory: the stage takes its place, or is removed.
Restore ==
  /\ archive # Nothing /\ restored = Nothing
  /\ Verified(archive)
  /\ restored' = archive.copied
  /\ UNCHANGED <<content, job, temporary, archive, taken>>

\* The restored directory is deleted, for the next drill.
Discard ==
  /\ restored # Nothing
  /\ restored' = Nothing
  /\ UNCHANGED <<content, job, temporary, archive, taken>>

Next ==
  Commit \/ Audit \/ Begin \/ Stat \/ Hash \/ Copy \/ Publish \/ Crash \/ Restore \/ Discard

Spec == Init /\ [][Next]_vars

-----------------------------------------------------------------------------
(* Properties.                                                             *)

Images == [Names -> 0 .. MaxWrites]
Archives == [size : Images, manifest : Images, copied : Images]

TypeOK ==
  /\ content \in Images /\ job.at \in {"idle", "stat", "hash", "copy", "publish"}
  /\ temporary \in Archives
  /\ archive # Nothing => archive \in Archives
  /\ restored # Nothing => restored \in Images

\* The database in a published archive is of one moment, that of its backup, and
\* restores, whatever commits, crashes and other backups there were; only the audit
\* trail, if it grew between its stat and its copy, makes the restore refuse an archive
\* that the backup called good (backup.py:45-60, 103; server.py:61-80).
ArchiveRestores ==
  archive # Nothing =>
    /\ archive.copied["state.json"] = taken /\ archive.copied["pages.dat"] = taken
    /\ ~Verified(archive) =>
         archive.copied["http-audit.jsonl"] > archive.size["http-audit.jsonl"]

=============================================================================
