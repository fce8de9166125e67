---------------------------- MODULE ScanAdmission ----------------------------
(***************************************************************************)
(* One delivery of a scan request on its way through Execute               *)
(* (internal/usecase/services/process_scan_request.go) up to the submission*)
(* to Kubernetes, with the collaborators cmd/controller wires in place of  *)
(* the ports: what ProcessScanRequest leaves open is decided here by the   *)
(* fields of the request (ScanRequestRules).                               *)
(***************************************************************************)
EXTENDS ScanRequestRules, Sequences

CONSTANT Messages     \* the decoded bodies a producer may send

VARIABLES
    message,    \* the message being processed
    keySet,     \* an encryption key is configured
    request,    \* the local variable "request" of Execute
    pc,         \* the next call of Execute
    code,       \* the error code of the failure, "none" so far
    manifest,   \* the manifest that was built, NoManifest before
    said        \* the events published

vars == <<message, keySet, request, pc, code, manifest, said>>

NoManifest ==
    [name |-> BuildScanName(Empty, Empty), target |-> Empty, credential |-> Empty,
     commitScan |-> FALSE, baseline |-> Empty]

\* What the request is to the registry, Normalize, Validate and RequiresAuth.
Kind(m) ==
    LET normalized == Normalize(Decode(m)) IN
    IF ~IsRegistered(m.scanner) THEN "unknown scanner"
    ELSE IF ~Validates(normalized) THEN "invalid"
    ELSE IF RequiresAuth(normalized) THEN "private" ELSE "open"

Only(value) == [d \in {"delivery"} |-> value]

\* ProcessScanRequest with this delivery alone.
Delivery == INSTANCE ProcessScanRequest WITH
    Attempts <- {"delivery"}, Scans <- {"delivery"}, Scan <- Only("delivery"),
    PodChecks <- "placeholder", MaxRevisions <- 0, MaxPublishFailures <- 0,
    MaxLostAnswers <- 0, MaxCrashes <- 0,
    kind <- Only(Kind(message)), pc <- Only(pc), read <- Only(0),
    version <- Only(0), revision <- 0, pods <- Only(FALSE), applied <- Only(FALSE),
    said <- Only(said), topic <- Only(said), failures <- 0, lost <- 0, crashes <- 0

-----------------------------------------------------------------------------
Init ==
    /\ message \in Messages
    /\ keySet \in BOOLEAN
    /\ request = Decode(message)
    /\ pc = "delivered"
    /\ code = "none"
    /\ manifest = NoManifest
    /\ said = <<>>

\* The call returns without an error.
Pass(label) == pc' = label /\ UNCHANGED <<message, keySet, code>>

\* The call fails: publishFailure is next.
Reject(error) ==
    /\ pc' = "failing"
    /\ code' = error
    /\ UNCHANGED <<message, keySet, manifest, said>>

\* A call that either goes on or fails, and publishes nothing.
Check(ok, label, error) ==
    \/ ok /\ Pass(label) /\ UNCHANGED <<manifest, said>>
    \/ ~ok /\ Reject(error)

ResolveScanner ==
    /\ pc = "delivered"
    /\ ~IsRegistered(request.alias)
    /\ Reject("UnsupportedScanner")
    /\ UNCHANGED request

NormalizeAndValidate ==
    /\ pc = "delivered"
    /\ IsRegistered(request.alias)
    /\ request' = Normalize(request)
    /\ Check(Validates(request'), "resolved", "InvalidRequest")

\* The placeholder of ExistingScanPods knows of no pods.
CheckPods ==
    /\ pc = "resolved"
    /\ Pass("checked")
    /\ UNCHANGED <<request, manifest, said>>

PublishAccepted ==
    /\ pc = "checked"
    /\ Pass("accepted")
    /\ said' = Append(said, Delivery!AcceptedEvent)
    /\ UNCHANGED <<request, manifest>>

DecryptAuthToken ==
    /\ pc = "accepted"
    /\ Check(RequiresAuth(request) => Decrypts(request, keySet), "decrypted", "AuthDecrypt")
    /\ UNCHANGED request

VerifyTarget ==
    /\ pc = "decrypted"
    /\ Check(Verifies(request), "verified", VerificationError(request))
    /\ UNCHANGED request

BuildScanManifest ==
    /\ pc = "verified"
    /\ \/ /\ HasTemplate(request.scanner)
          /\ Pass("built")
          /\ manifest' = BuildManifest(request)
          /\ UNCHANGED said
       \/ ~HasTemplate(request.scanner) /\ Reject("ManifestBuild")
    /\ UNCHANGED request

\* publishFailure that returns the error without publishing it.
PublishFailureSilent ==
    /\ pc = "failing"
    /\ Pass("done")
    /\ UNCHANGED <<request, manifest, said>>

PublishFailure ==
    /\ pc = "failing"
    /\ Pass("done")
    /\ said' = Append(said, Delivery!FailedEvent)
    /\ UNCHANGED <<request, manifest>>

Next ==
    \/ ResolveScanner
    \/ NormalizeAndValidate
    \/ CheckPods
    \/ PublishAccepted
    \/ DecryptAuthToken
    \/ VerifyTarget
    \/ BuildScanManifest
    \/ PublishFailure

Spec == Init /\ [][Next]_vars

-----------------------------------------------------------------------------
(***************************************************************************)
(* Properties.                                                             *)
(***************************************************************************)
\* The wired delivery is one of those ProcessScanRequest allows: the kinds it
\* distinguishes, and nothing else about a request, decide which way Execute
\* can go, and in which order it speaks.
DeliveryImplements == Delivery!Spec

VerificationErrors == {"RepositoryLookup", "ImageLookup", "URLVerification"}

\* A request whose acceptance was announced is never turned down by its
\* verifier: the field Normalize fills, the one Validate demands and the one
\* the strategy's verifier looks at are the same for every alias and spelling of
\* the target (scanner_registry.go:142-149, scan_request.go:36-54,
\* verifiers.go:26-51).
AcceptedTargetsVerify == code \notin VerificationErrors

\* With a key configured no token gets into a manifest past the decryptor,
\* whichever scanner the request is for: the decryptor cannot decrypt yet and
\* refuses every token, so one that did get there was never shown to it
\* (scanner_registry.go:80-82 and 138-140, decryptor.go:17-26).  Without a key it
\* passes a token on as it came, encrypted or not.
NoTokenBypassesDecryptor == pc = "built" /\ keySet => IsBlank(manifest.credential)

\* The manifest scans the target the producer named, and by commits exactly for
\* the two aliases that FEATURES.md:557 and :566 name, with the commit the producer
\* gave: mapper, registry, validation and builders each keep their own table of
\* what an alias means (builders.go:45-99).  The comments of the code have another
\* rule, CommitScanByCommit.
ScansWhatWasAsked ==
    pc = "built" =>
        LET byCommit == message.scanner \in {"fs_code_commit", "fs_secret_commit"} IN
        /\ ~IsBlank(manifest.target) /\ manifest.target = message.projectUri
        /\ manifest.commitScan = byCommit
        /\ manifest.baseline = IF byCommit THEN message.commitId ELSE Empty

\* "true nếu BaseCommit != """, true if there is a base commit (renderer.go:36 and
\* scanner_registry.go:99, as scan_request.go:58-60 decides): a manifest scans by
\* commits if and only if the request has a commit.  The builders overwrite the
\* flag by the alias and break this in both directions.
CommitScanByCommit ==
    pc = "built" => manifest.commitScan = ~IsBlank(message.commitId)

\* Two requests with one id can only compete for one Scan resource when the
\* registry sends them to the same scanner, although the registry and
\* builders.go:19-39 map the aliases by tables of their own.
NamesSeparateScanners ==
    pc = "built" =>
        \A m \in Messages :
            /\ IsRegistered(m.scanner)
            /\ HasTemplate(Resolve(m.scanner))
            /\ BuildScanName(m.scanner, m.requestUUID) = manifest.name
            => Resolve(m.scanner) = request.scanner

\* The strengthening behind the properties that hold: what the request is known to be at each
\* call of Execute, and what the manifest was built from.
Validated == {"resolved", "checked", "accepted", "decrypted", "verified"}

RulesInv ==
    /\ pc = "delivered" => request = Decode(message)
    /\ pc \in Validated \cup {"built"} =>
         /\ IsRegistered(request.alias)
         /\ request = Normalize(Decode(message))
         /\ Validates(request)
    /\ pc \in {"decrypted", "verified"} /\ keySet => IsBlank(request.authToken)
    /\ pc = "built" => HasTemplate(request.scanner) /\ manifest = BuildManifest(request)
    /\ AcceptedTargetsVerify
    /\ NoTokenBypassesDecryptor

=============================================================================
