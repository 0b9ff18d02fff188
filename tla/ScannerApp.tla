------------------------------ MODULE ScannerApp ------------------------------
(***************************************************************************)
(* Builds of the scanner application, one of which is the current one, and *)
(* the browser origins they need, which the CORS middleware reads once,    *)
(* when the process starts.                                                *)
(***************************************************************************)
EXTENDS Sessions, Sequences

CONSTANTS
  Sites,         \* scheme and host of a browser application, in lower case
  LastBuild,     \* bound on scanner_app_builds.id
  KnownSites     \* CORS_ALLOW_ORIGINS of the settings

ASSUME SitesAreKnown == KnownSites \subseteq Sites /\ LastBuild \in Nat

(* An origin as an administrator types it, with capitals or without; the   *)
(* payload's validation cuts blanks and the last slash.                    *)
Origin == [site: Sites, capitals: BOOLEAN]

VARIABLES
  build,          \* scanner_app_builds in the order of their ids
  allowedOrigin,  \* allowed_origins: a sequence of origins, all active
  admitted,       \* the origins the running process admits, with what was stored at its start
  buildSession    \* what a worker is about to commit, or None

scannerVars == <<build, allowedOrigin, admitted, buildSession>>

BuildRow == [origin: Maybe(Origin), active: BOOLEAN]
OriginRows == {allowedOrigin[i] : i \in DOMAIN allowedOrigin}

-----------------------------------------------------------------------------

ActiveBuilds == {b \in DOMAIN build : build[b].active}

(* generate_build up to its commit: the origin's row and the active builds *)
(* are read.                                                               *)
GenerateBuild(w) ==
  \E origin \in Maybe(Origin) :
    /\ Len(build) < LastBuild
    /\ MayServe(buildSession, w, FALSE)
    /\ buildSession' = [buildSession EXCEPT ![w] =
         [origin |-> origin, isNew |-> origin # None /\ origin \notin OriginRows, old |-> ActiveBuilds]]
    /\ UNCHANGED <<build, allowedOrigin, admitted>>

(* Mutant: the active builds are looked up after the new one is added.     *)
AddedThenDeactivated(s) ==
  Append([b \in DOMAIN build |-> [build[b] EXCEPT !.active = FALSE]], [origin |-> s.origin, active |-> FALSE])

(* The rows read are deactivated, whatever was added since stays active.   *)
WithNewBuild(s) ==
  Append([b \in DOMAIN build |-> [build[b] EXCEPT !.active = @ /\ b \notin s.old]],
         [origin |-> s.origin, active |-> TRUE])

(* The unique constraint on origin                                         *)
OriginTaken(s) == s.isNew /\ s.origin \in OriginRows

(* The commit.  An origin another session added meanwhile is an            *)
(* IntegrityError that nothing catches: the transaction is lost.           *)
CommitBuild(w) ==
  LET s == buildSession[w] IN
  /\ s # None
  /\ Len(build) < LastBuild \/ OriginTaken(s)
  /\ IF OriginTaken(s)
       THEN UNCHANGED <<build, allowedOrigin>>
       ELSE /\ build' = WithNewBuild(s)
            /\ allowedOrigin' = IF s.isNew THEN Append(allowedOrigin, s.origin) ELSE allowedOrigin
  /\ buildSession' = [buildSession EXCEPT ![w] = None]
  /\ UNCHANGED admitted

(* get_active_build: the newest active one.                                *)
CurrentBuild ==
  IF ActiveBuilds = {} THEN None ELSE CHOOSE b \in ActiveBuilds : \A c \in ActiveBuilds : c <= b

(* add_origin: the header of a browser is in lower case.                   *)
Lowered(origin) == [site |-> origin.site, capitals |-> FALSE]

FromSettings == {[site |-> s, capitals |-> FALSE] : s \in KnownSites}

(* get_merged_browser_origins, which goes without the table if it cannot   *)
(* be read; the sessions of the old process end.                           *)
Restart ==
  \E readable \in BOOLEAN :
    /\ admitted' = [origins |-> FromSettings \cup
                      (IF readable THEN {Lowered(o) : o \in OriginRows} ELSE {}),
                    stored |-> IF readable THEN OriginRows ELSE {}]
    /\ buildSession' = [w \in Workers |-> None]
    /\ UNCHANGED <<build, allowedOrigin>>

ScannerInit ==
  /\ build = <<>> /\ allowedOrigin = <<>>
  /\ admitted = [origins |-> FromSettings, stored |-> {}]
  /\ buildSession = [w \in Workers |-> None]

ScannerNext == Restart \/ \E w \in Workers : GenerateBuild(w) \/ CommitBuild(w)
ScannerSpec == ScannerInit /\ [][ScannerNext]_scannerVars

-----------------------------------------------------------------------------

ScannerTypeOK ==
  /\ build \in Seq(BuildRow) /\ Len(build) <= LastBuild
  /\ allowedOrigin \in Seq(Origin)
  /\ admitted \in [origins: SUBSET Origin, stored: SUBSET Origin]

(* The current build is the one added last: overlapping generations may    *)
(* leave several builds active, and never deactivate the newest.           *)
NewestBuildIsCurrent == build # <<>> => CurrentBuild = Len(build)

(* A browser application is admitted once the process has read the origin  *)
(* it was given, however that was typed, and every build's origin has its  *)
(* row, of which there is one.                                             *)
BuildOriginsAreAdmitted ==
  /\ \A o \in admitted.stored : [site |-> o.site, capitals |-> FALSE] \in admitted.origins
  /\ \A b \in DOMAIN build : build[b].origin \in Maybe(OriginRows)
  /\ \A i, j \in DOMAIN allowedOrigin : allowedOrigin[i] = allowedOrigin[j] => i = j

(* Downloads and origins follow the builds.                                *)
BuildInv ==
  /\ ScannerTypeOK
  /\ NewestBuildIsCurrent
  /\ BuildOriginsAreAdmitted

=============================================================================
