----------------------------- MODULE ZipTransfer -----------------------------
(***************************************************************************)
(* The way of a zip file from the clone of the hub to the sources of a     *)
(* builder: it is made by graders-utils (Archive), served by the web server *)
(* of the hub, downloaded by the builders, and removed by response_poster  *)
(* when one of them is answered for.  A job that was delivered again has   *)
(* more than one builder, so that a download may meet the removal.  The    *)
(* connections are tasks of their own, and run beside all the others.      *)
(***************************************************************************)
EXTENDS Archive

CONSTANT Builds   \* the builders of the job

VARIABLES
  up,      \* the hub runs
  onDisk,  \* the zip file is in zip_dir, under its name
  get,     \* where the download of each builder is
  could    \* history: what the hub could have said of the file, in one instant,
           \* at some time of the download

hubSide == <<up, onDisk>>
transferVars == <<archiveVars, hubSide, get, could>>

InFlight == {"asked", "found", "sized", "open"}
Failed == {"notFound", "broken"}

TransferTypeOK ==
  /\ ArchiveTypeOK
  /\ up \in BOOLEAN
  /\ onDisk \in BOOLEAN
  /\ get \in [Builds -> InFlight \cup Failed \cup {"none", "got"}]
  /\ could \in [Builds -> SUBSET {"served", "refused"}]
  /\ \A b \in Builds : get[b] = "none" <=> could[b] = {}

TransferInit ==
  /\ ArchiveInit
  /\ up = TRUE
  /\ onDisk = FALSE
  /\ get = [b \in Builds |-> "none"]
  /\ could = [b \in Builds |-> {}]

\* What a hub that answers at once says.
Instant(running, present) == IF running /\ present THEN "served" ELSE "refused"

\* Before and after a step, of a download that is under way.
Watch ==
  could' = [b \in Builds |->
              IF get[b] \in InFlight \/ get'[b] # get[b]
              THEN could[b] \cup {Instant(up, onDisk), Instant(up', onDisk')}
              ELSE could[b]]

\* The hub packages the lab, in a file whose name (a UUID) is new.
PackageLab ==
  /\ Package
  /\ onDisk' = (onDisk \/ step' \in {"zip", "zipFailed"})
  /\ UNCHANGED <<up, get, could>>

\* The request of a lab is only published when its zip file is closed.
Published == step = "unzip" /\ Ours

\* download_url: a hub that is down refuses the connection.
Ask(b) ==
  /\ Published
  /\ get[b] = "none"
  /\ get' = [get EXCEPT ![b] = IF up THEN "asked" ELSE "broken"]
  /\ UNCHANGED <<archiveVars, hubSide>>
  /\ Watch

\* The handler of the GET: it looks for the file, asks for its size, opens it
\* and reads it.  An error closes the connection.
Serve(b, before, after, otherwise) ==
  /\ get[b] = before
  /\ get' = [get EXCEPT ![b] = IF onDisk THEN after ELSE otherwise]
  /\ UNCHANGED <<archiveVars, hubSide>>
  /\ Watch

\* A file that is served to one builder only.
IsFileOnce(b) ==
  \/ Serve(b, "asked", "found", "notFound") /\ \A c \in Builds : get[c] # "got"
  \/ /\ get[b] = "asked" /\ \E c \in Builds : get[c] = "got"
     /\ get' = [get EXCEPT ![b] = "notFound"]
     /\ UNCHANGED <<archiveVars, hubSide>>
     /\ Watch

IsFile(b) == Serve(b, "asked", "found", "notFound")
Metadata(b) == Serve(b, "found", "sized", "broken")
Open(b) == Serve(b, "sized", "open", "broken")

\* A file that is removed stays there for who has it open.
ReadToEnd(b) ==
  /\ get[b] = "open"
  /\ get' = [get EXCEPT ![b] = "got"]
  /\ UNCHANGED <<archiveVars, hubSide>>
  /\ Watch

\* response_to_post, once one of the builders has ended and its tester has
\* answered.  (A second answer finds no file, which is only logged.)
RemoveZipFile ==
  /\ up /\ onDisk
  /\ \E b \in Builds : get[b] \in Failed \cup {"got"}
  /\ onDisk' = FALSE
  /\ UNCHANGED <<archiveVars, up, get>>
  /\ Watch

\* The downloads that are under way are cut.
HubDown ==
  /\ Published
  /\ up
  /\ up' = FALSE
  /\ get' = [b \in Builds |-> IF get[b] \in InFlight THEN "broken" ELSE get[b]]
  /\ UNCHANGED <<archiveVars, onDisk>>
  /\ Watch

HubUp ==
  /\ ~up
  /\ up' = TRUE
  /\ UNCHANGED <<archiveVars, onDisk, get>>
  /\ Watch

\* What a builder does with its copy is a matter of its own: the one that
\* unzips is any that got the file, when no download is left.
Obtained ==
  \/ ~Ours
  \/ /\ \A b \in Builds : get[b] \in Failed \cup {"got"}
     /\ \E b \in Builds : get[b] = "got"

UnzipCopy ==
  /\ Obtained
  /\ Unzip
  /\ UNCHANGED <<hubSide, get, could>>

TransferNext ==
  \/ PackageLab
  \/ \E b \in Builds : Ask(b) \/ IsFile(b) \/ Metadata(b) \/ Open(b) \/ ReadToEnd(b)
  \/ RemoveZipFile \/ HubDown \/ HubUp
  \/ UnzipCopy
  \/ Ended /\ UNCHANGED transferVars

TransferSpec == TransferInit /\ [][TransferNext]_transferVars

-----------------------------------------------------------------------------
(* Properties.                                                             *)

\* Though the handler takes four steps, among those of the other connections,
\* of response_poster and of crashes, a download ends as if it had been made in
\* one instant between its start and its end: the whole file if it was there,
\* and no file only if it was not, or the hub was down.
DownloadIsAtomic ==
  \A b \in Builds :
    /\ get[b] = "got" => "served" \in could[b]
    /\ get[b] \in Failed => "refused" \in could[b]

\* What the handler has found the file for.
Looked == {"found", "sized", "open", "got"}

\* DownloadIsAtomic is about downloads that have ended.  Those under way run in
\* a hub that is up (HubDown cuts them), so that a file that is not there when
\* it is looked for is one that the hub refuses; and when the handler has found
\* the file, the hub has been able to serve it: what comes next may not undo it.
DownloadInv ==
  /\ DOMAIN get = Builds
  /\ DOMAIN could = Builds
  /\ \A b \in Builds :
       /\ get[b] \in InFlight => up
       /\ get[b] \in Looked => "served" \in could[b]
       /\ get[b] \in Failed => "refused" \in could[b]

TransferInv ==
  /\ TransferTypeOK
  /\ ArchiveInv
  /\ DownloadInv
=============================================================================
