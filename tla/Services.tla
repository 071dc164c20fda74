------------------------------- MODULE Services -------------------------------
(***************************************************************************)
(* The clients and tools of the engine that theorems speak of: the rate    *)
(* limiter, the identities, the agent memory and the backups.  They share  *)
(* no state with each other.  The first state says which of them runs, the *)
(* others rest: to interleave them would only multiply their states.       *)
(***************************************************************************)
EXTENDS Integers, Sequences

CONSTANTS
  Threads, Window, Limit, MaxDelay, MaxRequests,
  Users, MaxCalls,
  Ids, Scopes, Agents, NoMemory, Ttls, Near, Cut, MaxUpserts,
  Nothing, MaxWrites,
  MaxClock, MaxTime

VARIABLES
  part,
  clock, window, stamp, admitted,
  identities, file, pending, told, calls,
  time, memories, call, acked, upserts,
  content, job, temporary, archive, restored, taken

Gate == INSTANCE RateLimiter
Admin == INSTANCE Identities
Memory == INSTANCE MemoryStore
Copies == INSTANCE Backup

ASSUME ServicesAssumption ==
  /\ Gate!RateAssumption /\ Admin!CallsAssumption /\ Memory!MemoryAssumption
  /\ Copies!WritesAssumption

gate == <<clock, window, stamp, admitted>>
admin == <<identities, file, pending, told, calls>>
memory == <<time, memories, call, acked, upserts>>
copies == <<content, job, temporary, archive, restored, taken>>

ServicesInit == Gate!Init /\ Admin!Init /\ Memory!Init /\ Copies!Init

GateStep ==
  /\ part = "gate" /\ Gate!Next
  /\ UNCHANGED <<part, admin, memory, copies>>

AdminStep ==
  /\ part = "admin" /\ Admin!Next
  /\ UNCHANGED <<part, gate, memory, copies>>

MemoryStep ==
  /\ part = "memory" /\ Memory!Next
  /\ UNCHANGED <<part, gate, admin, copies>>

CopiesStep ==
  /\ part = "copies" /\ Copies!Next
  /\ UNCHANGED <<part, gate, admin, memory>>

ServicesNext == GateStep \/ AdminStep \/ MemoryStep \/ CopiesStep

ServicesSpec == ServicesInit /\ [][ServicesNext]_<<part, gate, admin, memory, copies>>

-----------------------------------------------------------------------------
(* Properties, of the modules they are named after.                        *)

\* The rate limiter lets through no more than its limit (server.py:100-110).
RateHolds == Gate!RateHolds

\* Memory and file of the identities say what was answered (auth.py:83-123).
AdminDurable == Admin!AdminDurable

\* An acknowledged memory is kept until it expires (memory.py:201-224).
AckedRetrievable == Memory!AckedRetrievable

\* Up to Cut memories, recent and search find the newest and the nearest
\* (memory.py:255-284).
RecentIsLatest == Memory!RecentIsLatest

\* The same without the bound of Cut, which the code does not keep.
RecentIsAlwaysLatest == Memory!RecentIsAlwaysLatest

\* A published archive is of one moment and restores (backup.py:37-109).
ArchiveRestores == Copies!ArchiveRestores

=============================================================================
