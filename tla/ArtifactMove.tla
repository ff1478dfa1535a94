---------------------------- MODULE ArtifactMove ----------------------------
(* Moving one artifact to another workspace (src/internal/artifact/move.go)   *)
(* and deleting it (delete.go).  Both set the directory aside under a         *)
(* recovery name, the tombstone, and compare what they seized with what they  *)
(* planned on.                                                                *)
(*                                                                            *)
(* Commands hold the locks of the workspaces; the user writes where the       *)
(* artifact is visible, or would be, at any moment, also where no directory   *)
(* is.  A directory is the version of its files; 0 is absent.                 *)
EXTENDS Naturals

CONSTANTS
    MaxEdits,     \* bound: versions the user writes
    MaxRemovals   \* bound: commands

ASSUME MoveConstants == MaxEdits \in Nat /\ MaxRemovals \in Nat

VARIABLES
    place,      \* the directories: source, tombstone, stage, destination
    leftovers,  \* versions in tombstones of earlier commands
    removal,    \* the running command
    removals,   \* commands so far
    latest,     \* history: the last version the user wrote
    released,   \* history: the versions that may be lost, see Owned
    incidents   \* history: the clean-ups that failed, the crashes

moveVars == <<place, leftovers, removal, removals, latest, released, incidents>>

Versions == 0 .. MaxEdits + 1

NoRemoval == [at |-> "idle", kind |-> "delete", planned |-> 0]

MoveTypeOK ==
    /\ place \in [{"source", "tombstone", "stage", "destination"} -> Versions]
    /\ leftovers \subseteq Versions /\ released \subseteq Versions
    /\ removal \in [at : {"idle", "planned", "copied", "seize", "seized", "install",
                          "installed", "undo", "restore", "clear"},
                    kind : {"move", "delete"}, planned : Versions]
    /\ incidents \subseteq {"undo", "restore", "clear", "crash"}
    /\ removals \in 0 .. MaxRemovals /\ latest \in 1 .. MaxEdits + 1

MoveInit ==
    /\ place = [source |-> 1, tombstone |-> 0, stage |-> 0, destination |-> 0]
    /\ leftovers = {} /\ removal = NoRemoval /\ removals = 0 /\ latest = 1
    /\ released = {} /\ incidents = {}

Go(at) == removal' = [removal EXCEPT !.at = at]

Incident(what) == incidents' = incidents \cup {what}

(* The command ends: its stage goes, a tombstone it still has stays.          *)
Finish(dirs) ==
    /\ removal' = NoRemoval
    /\ leftovers' = leftovers \cup ({dirs.tombstone} \ {0})
    /\ place' = [dirs EXCEPT !.tombstone = 0, !.stage = 0]

MoveDir(from, to) == [place EXCEPT ![to] = place[from], ![from] = 0]

-----------------------------------------------------------------------------
(* The identity and the fingerprint are planned on before a deletion takes    *)
(* its lock, and under the locks of a move, which needs a free destination.   *)
PlanRemoval ==
    /\ removal.at = "idle" /\ removals < MaxRemovals /\ place.source # 0
    /\ \E kind \in {"move", "delete"} :
        /\ kind = "move" => place.destination = 0
        /\ removal' = [at |-> "planned", kind |-> kind, planned |-> place.source]
    /\ removals' = removals + 1
    /\ UNCHANGED <<place, leftovers, latest, released, incidents>>

(* copyManagedDirectory into the stage, then inspect the copy.                *)
CopyToStage ==
    /\ removal.at = "planned" /\ removal.kind = "move"
    /\ place' = [place EXCEPT !.stage = place.source]
    /\ Go("copied")
    /\ UNCHANGED <<leftovers, removals, latest, released, incidents>>

(* Mutant: what was seized is taken for what was planned.                     *)
AnySnapshot(version) == TRUE

SameSnapshot(version) == version = removal.planned

(* The copy and, resolved once more, the source are still what was planned.   *)
CheckStage ==
    /\ removal.at = "copied" \/ (removal.at = "planned" /\ removal.kind = "delete")
    /\ IF (removal.kind = "move" => SameSnapshot(place.stage)) /\ SameSnapshot(place.source)
       THEN Go("seize") /\ UNCHANGED <<place, leftovers>>
       ELSE Finish(place)
    /\ UNCHANGED <<removals, latest, released, incidents>>

SeizeSource ==
    /\ removal.at = "seize"
    /\ \/ place' = MoveDir("source", "tombstone") /\ Go("seized") /\ UNCHANGED leftovers
       \/ Finish(place)                                      \* the rename fails
    /\ UNCHANGED <<removals, latest, released, incidents>>

(* An edit may have come between the check and the rename.                    *)
CheckSeized ==
    /\ removal.at = "seized"
    /\ \/ /\ SameSnapshot(place.tombstone)
          /\ Go(IF removal.kind = "move" THEN "install" ELSE "clear")
       \/ Go("restore")                                      \* changed, or unreadable
    /\ UNCHANGED <<place, leftovers, removals, latest, released, incidents>>

(* A directory is renamed only to where nothing is: somebody may have put     *)
(* something at the destination since the command found it free, or at the    *)
(* source since it was seized.                                                *)
InstallStage ==
    /\ removal.at = "install"
    /\ \/ place.destination = 0 /\ place' = MoveDir("stage", "destination") /\ Go("installed")
       \/ Go("restore") /\ UNCHANGED place
    /\ UNCHANGED <<leftovers, removals, latest, released, incidents>>

(* What the user wrote to the destination meanwhile has moved with the rest.  *)
CheckInstalled ==
    /\ removal.at = "installed"
    /\ \/ Go("clear") /\ released' = released \ {place.destination}
       \/ Go("undo") /\ UNCHANGED released
    /\ UNCHANGED <<place, leftovers, removals, latest, incidents>>

UndoInstall ==
    /\ removal.at = "undo"
    /\ \/ place' = MoveDir("destination", "stage") /\ UNCHANGED incidents
       \/ UNCHANGED place /\ Incident("undo")
    /\ Go("restore")
    /\ UNCHANGED <<leftovers, removals, latest, released>>

RestoreSource ==
    /\ removal.at = "restore"
    /\ \/ place.source = 0 /\ Finish(MoveDir("tombstone", "source")) /\ UNCHANGED incidents
       \/ Finish(place) /\ Incident("restore")
    /\ UNCHANGED <<removals, latest, released>>

(* A deletion may lose exactly what it was planned on.                        *)
ClearTombstone ==
    /\ removal.at = "clear"
    /\ \/ /\ Finish([place EXCEPT !.tombstone = 0])
          /\ released' = released \cup (IF removal.kind = "delete" THEN {removal.planned} ELSE {})
          /\ UNCHANGED incidents
       \/ Finish(place) /\ Incident("clear") /\ UNCHANGED released  \* a warning: it stays
    /\ UNCHANGED <<removals, latest>>

-----------------------------------------------------------------------------
(* A new version replaces the one it was written over.  What is written to a  *)
(* destination that is still being verified is lost if the move is undone.    *)
UserWrites(where) ==
    /\ latest <= MaxEdits
    /\ latest' = latest + 1
    /\ place' = [place EXCEPT ![where] = latest + 1]
    /\ released' = released \cup {place[where]} \cup
           (IF where = "destination" /\ removal.at \in {"installed", "undo"} THEN {latest + 1} ELSE {})
    /\ UNCHANGED <<leftovers, removal, removals, incidents>>

(* A killed command leaves its directories; the stage is under a recovery     *)
(* name too and is not counted on.                                            *)
CrashRemoval ==
    /\ removal.at # "idle"
    /\ Finish(place) /\ Incident("crash")
    /\ UNCHANGED <<removals, latest, released>>

MoveNext ==
    \/ PlanRemoval \/ CopyToStage \/ CheckStage \/ SeizeSource \/ CheckSeized
    \/ InstallStage \/ CheckInstalled \/ UndoInstall \/ RestoreSource \/ ClearTombstone
    \/ UserWrites("source") \/ UserWrites("destination")
    \/ CrashRemoval

MoveSpec == MoveInit /\ [][MoveNext]_moveVars

-----------------------------------------------------------------------------
(* The versions that have to be kept: all but those the user wrote over,      *)
(* those a deletion was planned on, and those written to a destination before *)
(* the move had verified it.                                                  *)
Owned == (1 .. latest) \ released

(* No version that has to be kept is lost, and none that stands at the        *)
(* destination or again at the source is replaced: each is visible in one of  *)
(* the two workspaces or under a recovery name.  Once the commands have       *)
(* ended they are all visible, unless one was killed or could not put back or *)
(* remove what it had set aside.  No version is visible in both workspaces,   *)
(* unless a move could not take back what it had installed.                   *)
MoveKeepsArtifact ==
    /\ MoveTypeOK
    /\ Owned \subseteq {place.source, place.destination, place.tombstone} \cup leftovers
    /\ removal.at = "idle" /\ incidents \subseteq {"undo"} =>
        Owned \subseteq {place.source, place.destination}
    /\ place.source = place.destination /\ place.source # 0 => "undo" \in incidents
=============================================================================
