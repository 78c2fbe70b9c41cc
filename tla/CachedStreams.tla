------------------------------ MODULE CachedStreams ------------------------------
(***************************************************************************)
(* FileStreams on a device with a volatile write cache.  The cache writes  *)
(* sectors back when it likes, in any order; a power cut loses the rest.   *)
(* AsyncBlockDevice::flush commits what precedes it (src/core/device.rs),  *)
(* and only FileSystem::flush asks for it.                                 *)
(*                                                                         *)
(* The sectors are the FAT, the bitmap, each cluster and, for each file,   *)
(* its entry set.  One that the cut loses is as it was at the last flush:  *)
(* versions between that and the last write are left out.                  *)
(***************************************************************************)
EXTENDS FileStreams

CONSTANTS MaxCuts \* bound: power cuts

VARIABLES
    medium, \* the sectors as of the last flush; calls see the cache
    since,  \* history: what a call did to each file since the last flush
    cuts    \* the power cuts so far

cachedVars == <<vars, medium, since, cuts>>

Cached == [fat |-> fat, used |-> used, data |-> data, live |-> live, stream |-> stream, sealed |-> sealed]

CachedInit ==
    /\ Init
    /\ medium = Cached
    /\ since = [f \in Files |-> "nothing"]
    /\ cuts = 0

(* A call is recorded when it begins or acts, and an append that returns   *)
(* Ok when it has.                                                         *)
Appended(f) == op.kind = "append" /\ op.file = f /\ At("seal") /\ op'.pc = "idle" /\ sealed'[f] = stream[f]
Concerns(f) == op.file = f \/ op'.file = f \/ (f \in live) # (f \in live')

(* Bounds: device errors and dropped futures come behind a power cut, and  *)
(* behind one there is one call and no flush.                              *)
Bounded ==
    /\ IoError \/ Cancel => cuts # 0
    /\ At("idle") /\ (\E f \in Files : Concerns(f)) /\ cuts # 0 => \A f \in Files : since[f] = "nothing"

(* A step of the file system: it sees the cache, and writes to it.         *)
Proceed ==
    /\ Next
    /\ Bounded
    /\ since' = [f \in Files |-> IF Appended(f) THEN "appended"
                                 ELSE IF Concerns(f) THEN "called" ELSE since[f]]
    /\ UNCHANGED <<medium, cuts>>

(* FileSystem::flush.                                                      *)
FlushFileSystem ==
    /\ At("idle") /\ cuts = 0
    /\ medium' = Cached
    /\ since' = [f \in Files |-> "nothing"]
    /\ UNCHANGED <<vars, cuts>>

SetStable(f) ==
    /\ f \in live <=> f \in medium.live
    /\ stream[f] = medium.stream[f] /\ sealed[f] = medium.sealed[f]

(* The cache had written some of the sectors back, in any order; the rest  *)
(* is what it was at the flush.  A mount reads what is left.               *)
PowerCut ==
    /\ cuts < MaxCuts
    /\ fat' \in {fat, medium.fat}
    /\ used' \in {used, medium.used}
    /\ \E lost \in SUBSET {c \in Clusters : data[c] # medium.data[c]} :
         data' = [c \in Clusters |-> IF c \in lost THEN medium.data[c] ELSE data[c]]
    /\ \E lost \in SUBSET {f \in Files : ~SetStable(f)} :
         /\ live' = (live \ lost) \cup (medium.live \cap lost)
         /\ stream' = [f \in Files |-> IF f \in lost THEN medium.stream[f] ELSE stream[f]]
         /\ sealed' = [f \in Files |-> IF f \in lost THEN medium.sealed[f] ELSE sealed[f]]
    /\ handle' = [f \in Files |-> Closed]
    /\ freeClusters' = None
    /\ op' = Idle
    /\ medium' = Cached'
    /\ cuts' = cuts + 1
    /\ since' = [f \in Files |-> "nothing"]

CachedNext == Proceed \/ FlushFileSystem \/ PowerCut
CachedSpec == CachedInit /\ [][CachedNext]_cachedVars

-----------------------------------------------------------------------------
(* What survives the first power cut.                                      *)
FirstCut == cuts = 0 /\ cuts' = 1

(* A file that no call concerned since the last flush is as it was,        *)
(* whatever the calls on other files left in the cache and whichever       *)
(* sectors it lost: no call writes a sector that other files need.         *)
UntouchedSurvives ==
    [][FirstCut => \A f \in Files : since[f] = "nothing" => View(f)' = View(f)]_cachedVars

(* "File growth ... then writes file data, updates the directory stream    *)
(* extension/checksum, and flushes through the block device": what an      *)
(* append that returned Ok has written survives.                           *)
GrowthFlushed ==
    [][FirstCut => \A f \in Files : since[f] = "appended" => View(f)' = View(f)]_cachedVars
=============================================================================
