----------------------------- MODULE TextCache -----------------------------
(***************************************************************************)
(* The two tiers that keep document texts: the session LRU of              *)
(* app/storage/session_cache.py in the memory of each server process, and  *)
(* the disk cache of app/storage/ttl_cache.py, a directory that the server *)
(* processes of one installation share.                                    *)
(*                                                                         *)
(* The text of a filing never changes, so a text is its receipt number.    *)
(* A step on the disk is one call of the file system, or a few that nobody *)
(* can tell apart; other processes, the clock and the death of a process   *)
(* come between them.                                                      *)
(***************************************************************************)
EXTENDS Integers, SequencesExt

CONSTANTS
  Processes,     (* server processes of the installation                    *)
  Keys,          (* receipt numbers                                         *)
  Size,          (* bytes of the text of each, as UTF-8 and as a file       *)
  MaxDocuments,  (* SESSION_CACHE_MAX_DOCUMENTS                             *)
  SessionBytes,  (* SESSION_CACHE_MAX_TEXT_MB                               *)
  DiskBytes,     (* cache.max_size_mb                                       *)
  Ttl,           (* cache.ttl_hours                                         *)
  MaxTime,       (* bound on the clock                                      *)
  MaxRestarts    (* bound on the ends of a process                          *)

ASSUME CacheAssumption ==
  /\ Size \in [Keys -> Nat \ {0}]
  /\ {MaxDocuments, SessionBytes, DiskBytes, Ttl} \subseteq Nat \ {0}
  /\ {MaxTime, MaxRestarts} \subseteq Nat

VARIABLES
  now,
  session,   (* _items of each process, least recently used first           *)
  total,     (* total_bytes of each process                                 *)
  files,     (* entries of the directory: key and mtime                     *)
  temps,     (* files being written: process, key and mtime                 *)
  op,        (* the disk operation each process is in                       *)
  stuck,     (* keys of files that clean-ups left behind, by a removal that *)
             (* failed or cut short, since somebody listed them last        *)
  restarts,  (* ends of a process so far                                    *)
  public     (* keys some call has cached in the mode "auto"                *)

vars == <<now, session, total, files, temps, op, stuck, restarts, public>>
disk == <<files, temps>>

Idle == [at |-> "idle"]

-----------------------------------------------------------------------------
(* SessionTextCache                                                         *)

Bytes(items) == SumFunctionOnSet(Size, Range(items))
Has(p, k) == k \in Range(session[p])
Touched(items, k) == Append(RemoveFirst(items, k), k)

(* popitem(last=False) until both bounds hold: the longest suffix that fits.*)
Fits(items, bytes) == Len(items) <= MaxDocuments /\ bytes <= SessionBytes
Evicted(items, bytes, n) == bytes - Bytes(SubSeq(items, 1, n))
Evictions(items, bytes) ==
  Min({n \in 0..Len(items) : Fits(SubSeq(items, n + 1, Len(items)), Evicted(items, bytes, n))})

(* Mutant of Stored: the old text of the key is not taken off the total.    *)
StoredTwice(p, k) ==
  LET items == Touched(session[p], k)
      n == Evictions(items, total[p] + Size[k])
  IN /\ session' = [session EXCEPT ![p] = SubSeq(items, n + 1, Len(items))]
     /\ total' = [total EXCEPT ![p] = Evicted(items, @ + Size[k], n)]

Stored(p, k) ==
  LET items == Touched(session[p], k)
      bytes == (total[p] - (IF Has(p, k) THEN Size[k] ELSE 0)) + Size[k]
      n == Evictions(items, bytes)
  IN /\ session' = [session EXCEPT ![p] = SubSeq(items, n + 1, Len(items))]
     /\ total' = [total EXCEPT ![p] = Evicted(items, bytes, n)]

SessionPut(p, k) ==
  IF Size[k] > SessionBytes THEN UNCHANGED <<session, total>> ELSE Stored(p, k)

-----------------------------------------------------------------------------
(* Reading.  A miss of the caller is followed by a download and Puts.       *)

At(p, where) == op[p].at = where
Goes(p, where) == op' = [op EXCEPT ![p] = where]

Alive(f) == now - f.mtime < Ttl
Entry(k) == {f \in files : f.key = k}

SessionHit(p, k) ==
  /\ At(p, "idle") /\ Has(p, k)
  /\ session' = [session EXCEPT ![p] = Touched(@, k)]
  /\ UNCHANGED <<now, total, disk, op, stuck, restarts, public>>

(* stat(): an expired entry is removed, a live one is going to be read.     *)
DiskLooks(p, k) ==
  /\ At(p, "idle") /\ ~Has(p, k) /\ Entry(k) # {}
  /\ \/ /\ \A f \in Entry(k) : ~Alive(f)
        /\ Goes(p, [at |-> "discarding", key |-> k])
     \/ /\ \A f \in Entry(k) : Alive(f)
        /\ Goes(p, [at |-> "reading", key |-> k])
  /\ UNCHANGED <<now, session, total, disk, stuck, restarts, public>>

(* What is read by now may be another entry, or none, or one whose content  *)
(* or checksum is wrong, which goes.                                        *)
DiskReads(p) ==
  /\ At(p, "reading")
  /\ LET k == op[p].key IN
       \/ /\ Entry(k) # {}
          /\ Goes(p, Idle)
          /\ files' = {f \in files : f.key # k} \cup {[key |-> k, mtime |-> now]}
          /\ SessionPut(p, k)
       \/ /\ Goes(p, [at |-> "discarding", key |-> k])
          /\ UNCHANGED <<files, session, total>>
  /\ UNCHANGED <<now, temps, stuck, restarts, public>>

(* unlink(), of whatever lies under the name by now.  On Windows it fails   *)
(* for a file that is open elsewhere, and _discard lets nobody know.        *)
Discards(p) ==
  /\ At(p, "discarding")
  /\ \/ files' = files \ Entry(op[p].key) /\ stuck' = stuck \ {op[p].key}
     \/ UNCHANGED <<files, stuck>>
  /\ Goes(p, Idle)
  /\ UNCHANGED <<now, session, total, temps, restarts, public>>

-----------------------------------------------------------------------------
(* Writing: put_session(), and put() with its temporary file.               *)

(* Mutant of PutSession: the disk tier is not told the mode.                *)
PutSessionTiered(p, k) ==
  /\ At(p, "idle") /\ SessionPut(p, k)
  /\ temps' = temps \cup {[owner |-> p, key |-> k, mtime |-> now]}
  /\ Goes(p, [at |-> "replacing", temp |-> [owner |-> p, key |-> k, mtime |-> now]])
  /\ UNCHANGED <<now, files, stuck, restarts, public>>

PutSession(p, k) ==
  /\ At(p, "idle") /\ SessionPut(p, k)
  /\ UNCHANGED <<now, disk, op, stuck, restarts, public>>

(* Mutant of NewTemp: the clock of the file system is ahead.                *)
NewTempAhead(p, k) == [owner |-> p, key |-> k, mtime |-> now + 1]
NewTemp(p, k) == [owner |-> p, key |-> k, mtime |-> now]
Puts(p, k) ==
  /\ At(p, "idle") /\ SessionPut(p, k)
  /\ public' = public \cup {k}
  /\ IF Size[k] > DiskBytes THEN UNCHANGED <<temps, op>>
       ELSE /\ temps' = temps \cup {NewTemp(p, k)}
            /\ Goes(p, [at |-> "replacing", temp |-> NewTemp(p, k)])
  /\ UNCHANGED <<now, files, stuck, restarts>>

(* Mutant of Replaces: a slow write leaves the clean-up to the next one.     *)
ReplacesOnly(p) ==
  /\ At(p, "replacing")
  /\ temps' = temps \ {op[p].temp}
  /\ files' = {f \in files : f.key # op[p].temp.key}
                \cup {[key |-> op[p].temp.key, mtime |-> now]}
  /\ \/ Goes(p, [at |-> "cleaning"])
     \/ now > op[p].temp.mtime /\ Goes(p, Idle)
  /\ UNCHANGED <<now, session, total, stuck, restarts, public>>

(* os.replace() and utime(); the temporary file may be gone, removed by     *)
(* another process that cleaned up, or its target be open, and the error    *)
(* leaves the call.                                                         *)
Replaces(p) ==
  /\ At(p, "replacing")
  /\ LET temp == op[p].temp IN
       /\ temps' = temps \ {temp}
       /\ \/ /\ temp \in temps
             /\ files' = {f \in files : f.key # temp.key}
                           \cup {[key |-> temp.key, mtime |-> now]}
             /\ Goes(p, [at |-> "cleaning"])
          \/ Goes(p, Idle) /\ UNCHANGED files
  /\ UNCHANGED <<now, session, total, stuck, restarts, public>>

-----------------------------------------------------------------------------
(* cleanup(): of all files, temporary ones included, the expired go, and of *)
(* the others the least recently used until the rest fits.                  *)

Found == files \cup temps
Weight(found) == SumFunction([f \in found |-> Size[f.key]])

(* Sorted by modification time; of equal ones, any comes first.             *)
Beginnings(found) ==
  {old \in SUBSET found : \A f \in old, g \in found \ old : f.mtime <= g.mtime}
Enough(found, old) == Weight(found \ old) <= DiskBytes
Surplus(found) ==
  {old \in Beginnings(found) :
     /\ Enough(found, old)
     /\ old = {} \/ \E f \in old : /\ old \ {f} \in Beginnings(found)
                                   /\ ~Enough(found, old \ {f})}

CleanupLists(p) ==
  /\ At(p, "cleaning")
  /\ LET live == {f \in Found : Alive(f)} IN
       \E old \in Surplus(live) : Goes(p, [at |-> "removing", victims |-> old \cup (Found \ live)])
  /\ stuck' = {}
  /\ UNCHANGED <<now, session, total, disk, restarts, public>>

(* stat() of some file fails while they are listed, with an error that is   *)
(* not FileNotFoundError: it leaves the call, after some of the expired.    *)
CleanupFails(p) ==
  /\ At(p, "cleaning")
  /\ \E gone \in SUBSET {f \in files : ~Alive(f)} : files' = files \ gone
  /\ stuck' = {f.key : f \in files'}
  /\ Goes(p, Idle)
  /\ UNCHANGED <<now, session, total, temps, restarts, public>>

(* Files are removed by name, whatever has become of them since.            *)
Named(victims) == {v.key : v \in {f \in victims : "owner" \notin DOMAIN f}}

(* The removal of each may fail, and its size counts as gone all the same.  *)
CleanupRemoves(p) ==
  /\ At(p, "removing")
  /\ LET named == Named(op[p].victims) IN
       \E kept \in SUBSET {f \in files : f.key \in named} :
         /\ files' = {f \in files : f.key \notin named} \cup kept
         /\ stuck' = (stuck \ named) \cup {f.key : f \in kept}
  /\ \E kept \in SUBSET (temps \cap op[p].victims) : temps' = (temps \ op[p].victims) \cup kept
  /\ Goes(p, Idle)
  /\ UNCHANGED <<now, session, total, restarts, public>>

-----------------------------------------------------------------------------
Tick ==
  /\ now < MaxTime /\ now' = now + 1
  /\ UNCHANGED <<session, total, disk, op, stuck, restarts, public>>

(* A process ends or dies, and another is started in its place.             *)
Restarts(p) ==
  /\ restarts < MaxRestarts /\ restarts' = restarts + 1
  /\ session' = [session EXCEPT ![p] = << >>] /\ total' = [total EXCEPT ![p] = 0]
  /\ Goes(p, Idle)
  /\ stuck' = IF At(p, "cleaning") \/ At(p, "removing") THEN {f.key : f \in files} ELSE stuck
  /\ UNCHANGED <<now, disk, public>>

Init ==
  /\ now = 0
  /\ session = [p \in Processes |-> << >>] /\ total = [p \in Processes |-> 0]
  /\ files = {} /\ temps = {} /\ op = [p \in Processes |-> Idle]
  /\ stuck = {} /\ restarts = 0 /\ public = {}

Next ==
  \/ \E p \in Processes :
       \/ DiskReads(p) \/ Discards(p) \/ Replaces(p)
       \/ CleanupLists(p) \/ CleanupFails(p) \/ CleanupRemoves(p) \/ Restarts(p)
       \/ \E k \in Keys : SessionHit(p, k) \/ DiskLooks(p, k) \/ PutSession(p, k) \/ Puts(p, k)
  \/ Tick

Spec == Init /\ [][Next]_vars

-----------------------------------------------------------------------------
FileTypes == [key : Keys, mtime : 0..now]
TempTypes == [owner : Processes, key : Keys, mtime : 0..now]

TypeOK ==
  /\ restarts \in 0..MaxRestarts
  /\ now \in 0..MaxTime
  /\ session \in [Processes -> Seq(Keys)] /\ total \in [Processes -> Int]
  /\ files \subseteq FileTypes /\ temps \subseteq TempTypes
  /\ \A f, g \in files : f.key = g.key => f = g
  /\ stuck \subseteq Keys /\ public \subseteq Keys

(* The byte count of the session cache is that of the texts in it, each of  *)
(* them once, and within both bounds, whatever is put again, promoted from  *)
(* the disk or evicted.                                                     *)
SessionExact ==
  \A p \in Processes :
    /\ \A i, j \in DOMAIN session[p] : session[p][i] = session[p][j] => i = j
    /\ total[p] = Bytes(session[p])
    /\ Fits(session[p], total[p])

(* Once every process that wrote to the directory has cleaned up, however   *)
(* their listings and removals interleave, the directory is within its      *)
(* bound but for files that a clean-up left behind, by a removal that the   *)
(* file system refused or by not getting to its end; and those count again  *)
(* as soon as anybody lists.                                                *)
Removable == {f \in files : f.key \notin stuck}

DiskBounded ==
  (\A p \in Processes : ~At(p, "cleaning") /\ ~At(p, "removing"))
    => Weight(Removable) <= DiskBytes

(* A text that was only ever fetched in the mode "session" does not reach   *)
(* the disk, not by a later call in the mode "auto" that finds it either.   *)
SessionStaysOffDisk == {f.key : f \in Found} \subseteq public
=============================================================================
