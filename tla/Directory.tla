------------------------------ MODULE Directory ------------------------------
(***************************************************************************)
(* The signed directory as a value: internal/directory and the pure part   *)
(* of internal/cli/helpers.go.                                             *)
(*                                                                         *)
(* A directory keeps the fields the publishing protocol tells apart: the   *)
(* serial, the membership, the VPN domain and the observed endpoints.      *)
(* CreatedAt is left out: it is stamped together with the serial by        *)
(* bumpDirectory, so it never separates two directories with different     *)
(* serials.  Serials are uint64 and wrap at nothing: bumpDirectory refuses  *)
(* to go past MaxSerial, which stands for math.MaxUint64.                  *)
(***************************************************************************)
EXTENDS Naturals, FiniteSets

CONSTANTS Node,       \* every node name that can be a member
          Plain,      \* the plain WireGuard nodes: no age recipient
          Hubs,       \* the nodes that have an operator endpoint
          Domain,     \* VPN domains, NoDomain among them
          NoDomain,
          Obs,        \* what an admin may have observed, NoObs among them
          NoObs,
          MaxSerial   \* math.MaxUint64

ASSUME DirectoryAssumption ==
    /\ Plain \subseteq Node
    /\ Hubs \subseteq Node
    /\ NoDomain \in Domain
    /\ NoObs \in Obs
    /\ MaxSerial \in Nat \ {0}

Serial == 0 .. MaxSerial

Directories == [serial: Serial, nodes: SUBSET Node, domain: Domain, obs: Obs]

\* A missing file or an empty drop.  Every directory tincan writes has a
\* serial of at least 1, so serial 0 marks absence.
NoDir == [serial |-> 0, nodes |-> {}, domain |-> NoDomain, obs |-> NoObs]

Missing(d) == d.serial = 0

\* What `tincan init` on node n writes as the working directory.
InitDir(n) == [serial |-> 1, nodes |-> {n}, domain |-> NoDomain, obs |-> NoObs]

\* The same members and domain, the fields the admin commands edit.
SameContent(d, e) == d.nodes = e.nodes /\ d.domain = e.domain

MaxOf(i, j) == IF i >= j THEN i ELSE j

-----------------------------------------------------------------------------
(* Seal and Open.                                                          *)

\* The members a sealed blob is encrypted to.
recipientsOf(d) == d.nodes \ Plain

\* Seal fails without a recipient.
Sealable(d) == recipientsOf(d) # {}

\* Node n decrypts the blob of d: it is one of its age recipients.  The
\* signature then verifies, because only the publisher key seals.
Opens(n, d) == ~Missing(d) /\ n \in recipientsOf(d)

\* Fault: an equal serial counts as a rollback.
IsRollbackOrEqual(newSerial, cachedSerial) == newSerial <= cachedSerial

IsRollback(newSerial, cachedSerial) == newSerial < cachedSerial

-----------------------------------------------------------------------------
(* The mutations of the admin commands.                                    *)

\* add-node refuses a name that exists; a plain WireGuard client needs a hub
\* that is already a member.
AddNode(d) ==
    { [d EXCEPT !.nodes = @ \cup {n}] :
        n \in {x \in Node \ d.nodes : x \in Plain => d.nodes \cap Hubs # {}} }

\* remove-node refuses a name that does not exist.
RemoveNode(d) == { [d EXCEPT !.nodes = @ \ {n}] : n \in d.nodes }

\* set-domain <domain> and set-domain --clear.
SetDomain(d) == { [d EXCEPT !.domain = x] : x \in Domain }

Edits(d) == AddNode(d) \cup RemoveNode(d) \cup SetDomain(d)

-----------------------------------------------------------------------------
(* Choosing the directory to start from, and the serial to publish under.  *)

\* fetchAdminDirectory: the working copy unless the remote is newer.  NoDir
\* stands for a source, a cache or a remote that could not be read; the
\* result NoDir is the error return.
fetchAdminDirectory(source, remote, cached) ==
    IF ~Missing(source) /\ source.serial >= remote.serial THEN source
    ELSE IF ~Missing(remote) THEN remote
    ELSE cached

\* pendingAdminChanges: edits staged with --no-publish keep the serial of
\* the directory they were made on, so equal serials compare payloads.
pendingAdminChanges(source, remote) ==
    source.serial >= remote.serial /\ source # remote

\* reconcilePublishSerial: an error other than "not found" needs --force.
reconcileAllowed(fetchErr, force) == fetchErr \in {"none", "notfound"} \/ force

\* preparePublishSerial without the final bump: the highest of the working
\* copy, the remote (NoDir when it was not read) and the two local floors.
serialFloor(dir, remote, cacheFloor, publishFloor) ==
    MaxOf(MaxOf(dir.serial, remote.serial), MaxOf(cacheFloor, publishFloor))

\* bumpDirectory, where it does not overflow.
bumpDirectory(dir, floor) == [dir EXCEPT !.serial = floor + 1]
=============================================================================
