----------------------------- MODULE Installer -----------------------------
(***************************************************************************)
(* install_update of swarm/release/update_installer.py: a signed archive   *)
(* is unpacked beside the product, the old product is moved aside and the  *)
(* new one into its place.  A step may raise, which moves the old product  *)
(* back where nothing has taken its place, or the process dies there and   *)
(* the next update finds what it left.                                     *)
(***************************************************************************)
EXTENDS Naturals

CONSTANTS
  Version, Nothing, Remains,   \* products; no directory; one that is half removed
  MaxUpdates, MaxUpdateDeaths        \* bounds

ASSUME InstallerConstants ==
  Nothing \notin Version /\ Remains \notin Version /\ Nothing # Remains
  /\ {MaxUpdates, MaxUpdateDeaths} \subseteq Nat

VARIABLES
  dest, previous, staged,   \* destination, .previous, DesignStudio in the staging directory
  phase,                  \* where install_update is
  had,                    \* history: the product when the update began
  updates, installerDeaths

installerVars == <<dest, previous, staged, phase, had, updates, installerDeaths>>

Phases == {"verify", "unpack", "clear", "aside", "in", "drop", "rescue"}
Results == {"none", "updated", "rejected", "refused", "died"}

InstallerInit ==
  /\ dest \in Version \cup {Nothing} /\ previous = Nothing /\ staged = Nothing
  /\ phase = "none" /\ had = dest /\ updates = 0 /\ installerDeaths = 0

Goes(to) == phase' = to /\ UNCHANGED <<had, updates, installerDeaths>>
Raises == Goes("rescue") /\ UNCHANGED <<dest, previous, staged>>

StartUpdate ==
  /\ phase \in Results /\ updates < MaxUpdates
  /\ updates' = updates + 1 /\ phase' = "verify" /\ staged' = Nothing
  /\ had' = IF dest = Nothing THEN previous ELSE dest
  /\ UNCHANGED <<dest, previous, installerDeaths>>

(* Signature, digest and byte count: nothing is touched, nor rescued.      *)
VerifyArchive ==
  /\ phase = "verify" /\ (Goes("rejected") \/ Goes("unpack"))
  /\ UNCHANGED <<dest, previous, staged>>

Unpack(v, replace) ==
  /\ phase = "unpack"
  /\ \/ Raises
     \/ dest # Nothing /\ ~replace /\ staged' = v /\ Goes("rescue") /\ UNCHANGED <<dest, previous>>
     \/ /\ dest # Nothing => replace
        /\ staged' = v /\ UNCHANGED <<dest, previous>>
        /\ Goes(IF dest = Nothing THEN "in" ELSE IF previous = Nothing THEN "aside" ELSE "clear")

(* rmtree: the directory is gone, or what is left of it stays.             *)
Removes(next) ==
  \/ previous' = Nothing /\ Goes(next)
  \/ previous' \in {previous, Remains} /\ Goes("rescue")

ClearBackup == phase = "clear" /\ Removes("aside") /\ UNCHANGED <<dest, staged>>

MoveAside ==
  /\ phase = "aside"
  /\ \/ previous' = dest /\ dest' = Nothing /\ Goes("in") /\ UNCHANGED staged
     \/ Raises

MoveIn ==
  /\ phase = "in"
  /\ \/ /\ dest' = staged /\ staged' = Nothing /\ UNCHANGED previous
        /\ Goes(IF previous = Nothing THEN "updated" ELSE "drop")
     \/ Raises

DropBackup == phase = "drop" /\ Removes("updated") /\ UNCHANGED <<dest, staged>>

RescuesAlways == previous # Nothing  \* mutant: over what has taken its place
NeverRescues == FALSE  \* mutant
Rescues == previous # Nothing /\ dest = Nothing

Rescue ==
  /\ phase = "rescue" /\ staged' = Nothing /\ Goes("refused")
  /\ IF Rescues THEN dest' = previous /\ previous' = Nothing ELSE UNCHANGED <<dest, previous>>

(* The process dies between two steps, or in the middle of an rmtree.      *)
Die ==
  /\ phase \in Phases /\ installerDeaths < MaxUpdateDeaths
  /\ installerDeaths' = installerDeaths + 1 /\ phase' = "died"
  /\ previous' \in IF phase \in {"clear", "drop"} THEN {previous, Remains} ELSE {previous}
  /\ UNCHANGED <<dest, staged, had, updates>>

InstallerNext ==
  \/ StartUpdate \/ VerifyArchive \/ ClearBackup \/ MoveAside \/ MoveIn \/ DropBackup \/ Rescue
  \/ Die \/ \E v \in Version, replace \in BOOLEAN : Unpack(v, replace)

InstallerSpec == InstallerInit /\ [][InstallerNext]_installerVars

-----------------------------------------------------------------------------
(* Every variable keeps to its type.                                       *)
InstallerTypeOK ==
  /\ {dest, staged} \subseteq Version \cup {Nothing}
  /\ {previous, had} \subseteq Version \cup {Nothing, Remains}
  /\ phase \in Phases \cup Results
  /\ updates \in 0..MaxUpdates /\ installerDeaths \in 0..MaxUpdateDeaths

(* The destination is never a directory that was only partly removed, also *)
(* after a death in the middle of an update and the rescue of the next.    *)
DestWhole == dest # Remains

(* Once there is a product there is always one: in its place, or whole in  *)
(* the backup while the place is empty.                                    *)
ProductKept == had \in Version => dest \in Version \/ previous \in Version

(* An update that fails once its archive is verified leaves a product in   *)
(* place where there was one, even when the update before it died between  *)
(* its renames and left the place empty.                                   *)
RefusedKeeps == phase = "refused" /\ had \in Version => dest \in Version

(* The three: a user who had a product has one, whole and in its place.    *)
ProductSafe == DestWhole /\ ProductKept /\ RefusedKeeps
=============================================================================
