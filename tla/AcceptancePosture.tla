------------------------- MODULE AcceptancePosture -------------------------
(* The identity boundary of an acceptance run (src/bench/acceptance/       *)
(* posture.py) and the processes it is crossed by: the driver, the egress  *)
(* assertion's re-invocation of it under a tracer and a sandbox, and the   *)
(* target each of the two spawns.  sudo is modelled by where it refuses:   *)
(* without its rule, and from under a tracer or a namespace.               *)
EXTENDS Naturals, FiniteSets, Sequences

CONSTANT Account  \* the dedicated account; anyone else is "operator"

ASSUME AccountAssumption == Account \notin {"operator", "no account"}

VARIABLES
  machine,    \* what the operator provisioned: the account, its sudo rule
  command,    \* the command line of the driver
  processes   \* those running, each with its identity and its posture

postureVars == <<machine, command, processes>>

NoAccount == "no account"
Postures == {"account", "already-isolated"}

(* A process: who runs it, what its USER says, whether sudo would refuse   *)
(* from where it stands, and the posture it holds.                         *)
Process(role, identity, user, confined, posture) ==
  [role |-> role, identity |-> identity, user |-> user,
   confined |-> confined, posture |-> posture]

Posture(name, account, refused, inherited) ==
  [name |-> name, account |-> account, refused |-> refused, inherited |-> inherited]

Unresolved == Posture("unresolved", NoAccount, TRUE, FALSE)
Unwrapped == Posture("target", NoAccount, FALSE, TRUE)

-----------------------------------------------------------------------------
(* posture.py                                                              *)

SudoRuns(confined) == machine.account /\ machine.rule /\ ~confined

(* The probe runs the account's switch; it does not look it up. *)
Works(p) == SudoRuns(p.confined)

Resolve(p, name) ==
  IF name = "already-isolated" THEN Posture(name, NoAccount, FALSE, FALSE)
  ELSE IF machine.account /\ Works(p) THEN Posture(name, Account, FALSE, FALSE)
  ELSE Posture(name, NoAccount, TRUE, FALSE)

(* --spawned-under: believed only where USER is the account's. *)
Inherited(p, account) == Posture("account", account, p.user # account, TRUE)

Crosses(posture) == posture.account # NoAccount /\ ~posture.inherited

(* Mutant: a refused posture spawns as it can. *)
WrapFallsBack(p, child) ==
  IF p.posture.refused \/ ~Crosses(p.posture)
  THEN {[child EXCEPT !.identity = p.identity, !.user = p.user]}
  ELSE {[child EXCEPT !.identity = p.posture.account, !.user = p.posture.account]}

(* Wrap: the processes a spawn under p's posture can lead to, none where   *)
(* the posture is refused or sudo is.  sudo writes the account's USER, as  *)
(* forwardable() keeps the operator's from crossing.                       *)
Wrap(p, child) ==
  IF p.posture.refused THEN {}
  ELSE IF ~Crosses(p.posture) THEN {[child EXCEPT !.identity = p.identity, !.user = p.user]}
  ELSE IF SudoRuns(p.confined)
       THEN {[child EXCEPT !.identity = p.posture.account, !.user = p.posture.account]}
       ELSE {}

-----------------------------------------------------------------------------
(* The driver                                                              *)

Commands ==
  {c \in [adapter : {"target", "fixture"}, posture : Postures, drive : BOOLEAN,
          spawnedUnder : {NoAccount, Account}] :
     c.spawnedUnder # NoAccount => c.drive /\ c.posture = "account"}

PostureInit ==
  /\ machine \in [account : BOOLEAN, rule : BOOLEAN]
  /\ command \in Commands
  /\ processes = {Process("outer", "operator", "operator", FALSE, Unresolved)}

(* --spawned-under is refused on any command line but the re-invocation's, *)
(* which a hand can type too.                                              *)
Main(p) ==
  /\ p.posture = Unresolved
  /\ LET held == IF command.spawnedUnder # NoAccount /\ p.role = "outer"
                 THEN Inherited(p, command.spawnedUnder) ELSE Resolve(p, command.posture)
     IN  processes' = (processes \ {p}) \cup {[p EXCEPT !.posture = held]}
  /\ UNCHANGED <<machine, command>>

(* An adapter's running(): no process without wrap().  A fixture runs in   *)
(* the driver's own process.                                               *)
SpawnTarget(p) ==
  /\ p.role \in {"outer", "driver"} /\ p.posture # Unresolved
  /\ command.adapter = "target"
  /\ \E child \in Wrap(p, Process("target", p.identity, p.user, p.confined, Unwrapped)) :
       processes' = processes \cup {child}
  /\ UNCHANGED <<machine, command>>

(* run_traced() with drive_argv(): the identity switch encloses the tracer, *)
(* which encloses the sandbox and the driver's re-invocation.  The child   *)
(* holds inherited() where the switch was crossed for it, and probes       *)
(* otherwise.                                                              *)
Reinvoke(p) ==
  /\ p.role = "outer" /\ p.posture # Unresolved /\ ~command.drive
  /\ LET blank == Process("driver", p.identity, p.user, TRUE, Unresolved)
         placed == IF command.adapter = "fixture" THEN {blank} ELSE Wrap(p, blank)
         spawnedUnder == IF command.adapter = "fixture" THEN NoAccount ELSE p.posture.account
     IN \E child \in placed :
          processes' = processes \cup
            {IF spawnedUnder = NoAccount THEN child
             ELSE [child EXCEPT !.posture = Inherited(child, spawnedUnder)]}
  /\ UNCHANGED <<machine, command>>

(* The operator provisions the account, or takes the rule away, meanwhile. *)
Provision ==
  /\ machine' \in [account : BOOLEAN, rule : BOOLEAN]
  /\ UNCHANGED <<command, processes>>

PostureNext ==
  \/ \E p \in processes : Main(p) \/ SpawnTarget(p) \/ Reinvoke(p)
  \/ Provision

PostureSpec == PostureInit /\ [][PostureNext]_postureVars
-----------------------------------------------------------------------------
(* Properties                                                              *)

Targets == {p \in processes : p.role = "target"}

(* The ratified posture (DECISIONS.md): no target process runs as the      *)
(* operator, unless the operator said that the machine is the boundary;    *)
(* a refused or a claimed boundary spawns nothing.                         *)
NoTargetAsOperator ==
  \A p \in Targets : p.identity = Account \/ command.posture = "already-isolated"
=============================================================================
