-------------------------- MODULE AcceptanceArena --------------------------
(* Runs of the acceptance driver that share one base arena: retain()       *)
(* prunes the completed runs beyond the newest Keep, the in-progress       *)
(* marker keeps a run from the pruning of another, and each assertion gets *)
(* a directory no other run has written to (src/bench/acceptance/run.py).  *)
(* A run is known by the second it starts in, and runs start in different  *)
(* seconds.  A crashed run is never heard of again; its marker stays.      *)
EXTENDS Naturals, FiniteSets

CONSTANTS Seconds, Assertions, Keep

ASSUME ArenaAssumption ==
  Seconds \in Nat \ {0} /\ Keep \in Nat /\ IsFiniteSet(Assertions)

VARIABLES
  stage,    \* run -> where its assess() is
  asked,    \* run -> the assertions it has recorded
  arenas,   \* the arena directories there are, <<run, assertion>>
  markers,  \* the runs whose in-progress marker is on the disk
  listed,   \* run -> the arenas its previous_runs() found
  doomed    \* run -> the arenas it is to remove

Runs == 1..Seconds
arenaVars == <<stage, asked, arenas, markers, listed, doomed>>

Of(directories) == {d[1] : d \in directories}
Completed(directories) == Of(directories) \ markers

ArenaInit ==
  /\ stage = [r \in Runs |-> "unborn"] /\ asked = [r \in Runs |-> {}]
  /\ arenas = {} /\ markers = {}
  /\ listed = [r \in Runs |-> {}] /\ doomed = [r \in Runs |-> {}]

Enter(r, from, to) == stage[r] = from /\ stage' = [stage EXCEPT ![r] = to]

(* The clock does not go back: a later process starts in a later second.   *)
Launch(r) ==
  /\ \A q \in Runs : q > r => stage[q] = "unborn"
  /\ Enter(r, "unborn", "launched")
  /\ UNCHANGED <<asked, arenas, markers, listed, doomed>>

PreviousRuns(r) ==
  /\ Enter(r, "launched", "listing")
  /\ listed' = [listed EXCEPT ![r] = {d \in arenas : d[1] # r}]
  /\ UNCHANGED <<asked, arenas, markers, doomed>>

(* Mutant: a marked run is pruned as any other. *)
DoomedMarked(r) ==
  {d \in listed[r] : Cardinality({k \in Of(listed[r]) : k > d[1]}) >= Keep}

(* The Keep most recent of the completed runs it listed stay.  The markers *)
(* are read in one step: one that goes meanwhile only spares an arena.     *)
Doomed(r) ==
  {d \in listed[r] : /\ d[1] \notin markers
                     /\ Cardinality({k \in Completed(listed[r]) : k > d[1]}) >= Keep}

Candidates(r) ==
  /\ Enter(r, "listing", "pruning")
  /\ doomed' = [doomed EXCEPT ![r] = Doomed(r)]
  /\ listed' = [listed EXCEPT ![r] = {}]
  /\ UNCHANGED <<asked, arenas, markers>>

(* A removal that fails is logged and the run goes on; another run may     *)
(* have been quicker.                                                      *)
Prune(r) ==
  /\ stage[r] = "pruning"
  /\ \E d \in doomed[r] :
       /\ doomed' = [doomed EXCEPT ![r] = @ \ {d}]
       /\ \/ arenas' = arenas \ {d}
          \/ UNCHANGED arenas
  /\ UNCHANGED <<stage, asked, markers, listed>>

Mark(r) ==
  /\ doomed[r] = {} /\ Enter(r, "pruning", "assessing")
  /\ markers' = markers \cup {r}
  /\ UNCHANGED <<asked, arenas, listed, doomed>>

(* arena_for() and the assertion in it, recorded whatever it raises.       *)
AssessOne(r) ==
  /\ stage[r] = "assessing"
  /\ \E c \in Assertions \ asked[r] :
       /\ arenas' = arenas \cup {<<r, c>>}
       /\ asked' = [asked EXCEPT ![r] = @ \cup {c}]
  /\ UNCHANGED <<stage, markers, listed, doomed>>

(* The marker goes however assess() returns: an UnsupportedVerb ends it    *)
(* early.                                                                  *)
Return(r) ==
  /\ Enter(r, "assessing", "returned")
  /\ markers' = markers \ {r} /\ asked' = [asked EXCEPT ![r] = {}]
  /\ UNCHANGED <<arenas, listed, doomed>>

Kill(r) ==
  /\ stage[r] \in {"launched", "listing", "pruning", "assessing"}
  /\ stage' = [stage EXCEPT ![r] = "killed"]
  /\ listed' = [listed EXCEPT ![r] = {}] /\ doomed' = [doomed EXCEPT ![r] = {}]
  /\ asked' = [asked EXCEPT ![r] = {}]
  /\ UNCHANGED <<arenas, markers>>

ArenaNext ==
  \E r \in Runs :
    \/ Launch(r) \/ PreviousRuns(r) \/ Candidates(r) \/ Prune(r)
    \/ Mark(r) \/ AssessOne(r) \/ Return(r) \/ Kill(r)

ArenaSpec == ArenaInit /\ [][ArenaNext]_arenaVars
-----------------------------------------------------------------------------
(* Properties                                                              *)

ArenaTypeOK ==
  /\ stage \in [Runs -> {"unborn", "launched", "listing", "pruning", "assessing",
                         "returned", "killed"}]
  /\ asked \in [Runs -> SUBSET Assertions]
  /\ arenas \subseteq Runs \X Assertions /\ markers \subseteq Runs
  /\ listed \in [Runs -> SUBSET (Runs \X Assertions)]
  /\ doomed \in [Runs -> SUBSET (Runs \X Assertions)]

(* The marker's promise (in_progress_marker): a run that is still assessing *)
(* loses none of its arenas to the retention of another.                   *)
RunningKeepsArenas ==
  \A r \in Runs : stage[r] = "assessing" => \A c \in asked[r] : <<r, c>> \in arenas
=============================================================================
