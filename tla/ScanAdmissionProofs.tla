------------------------- MODULE ScanAdmissionProofs -------------------------
(***************************************************************************)
(* Theorems about ScanAdmission, for every set of messages: the texts in   *)
(* the fields of a request can be anything.                                *)
(***************************************************************************)
EXTENDS ScanAdmission, TLAPS

\* A request that was validated under the scanner of its alias is accepted by
\* the verifier of that alias.
LEMMA ValidatedVerifies ==
  ASSUME NEW r, Validates(r), r.scanner = Resolve(r.alias)
  PROVE  Verifies(r)
  BY DEF Validates, Verifies

\* A request that is let past the decryptor although a key is configured has no
\* token.
LEMMA DecryptedIsBlank ==
  ASSUME NEW r, RequiresAuth(r) => Decrypts(r, TRUE)
  PROVE  IsBlank(r.authToken)
  BY DEF RequiresAuth, Decrypts

\* Normalize names the scanner of the alias, and keeps the alias.
LEMMA NormalizeNames ==
  ASSUME NEW m
  PROVE  /\ Normalize(Decode(m)).scanner = Resolve(m.scanner)
         /\ Normalize(Decode(m)).alias = m.scanner
         /\ Resolve(m.scanner) # "nuclei" =>
              Normalize(Decode(m)) = [Decode(m) EXCEPT !.scanner = Resolve(m.scanner)]
<1> DEFINE named == [Decode(m) EXCEPT !.scanner = Resolve(Decode(m).alias)]
<1>1. named.scanner = Resolve(m.scanner) /\ named.alias = m.scanner /\ Decode(m).alias = m.scanner
  BY DEF Decode
<1>2. CASE Normalize(Decode(m)) = named
  BY <1>1, <1>2
<1>3. CASE /\ Normalize(Decode(m)) =
                [named EXCEPT !.targetURL = named.repositoryURL, !.repositoryURL = Empty]
           /\ named.scanner = "nuclei"
  BY <1>1, <1>3 DEF Decode
<1> QED
  BY <1>2, <1>3 DEF Normalize

\* What is known of the request is known in the beginning.
LEMMA RulesInit == Init => RulesInv
  BY DEF Init, RulesInv, Validated, AcceptedTargetsVerify, VerificationErrors,
     NoTokenBypassesDecryptor

\* Every call of Execute keeps what is known of the request.
LEMMA RulesStep == RulesInv /\ [Next]_vars => RulesInv'
<1> SUFFICES ASSUME RulesInv, [Next]_vars PROVE RulesInv'
  OBVIOUS
<1> USE DEF RulesInv, Validated, AcceptedTargetsVerify, VerificationErrors,
           NoTokenBypassesDecryptor
<1>1. ASSUME NEW error, error \notin VerificationErrors, Reject(error) PROVE RulesInv'
  BY <1>1 DEF Reject
<1>2. CASE ResolveScanner
  BY <1>1, <1>2 DEF ResolveScanner
<1>3. CASE NormalizeAndValidate
  <2>1. request' = Normalize(Decode(message)) /\ IsRegistered(message.scanner)
    BY <1>3 DEF NormalizeAndValidate, Decode
  <2>2. CASE Validates(request') /\ Pass("resolved")
    <3>1. IsRegistered(request'.alias)
      BY <2>1, NormalizeNames
    <3> QED
      BY <2>1, <2>2, <3>1 DEF Pass
  <2>3. CASE Reject("InvalidRequest")
    BY <1>1, <2>3
  <2> QED
    BY <1>3, <2>2, <2>3 DEF NormalizeAndValidate, Check
<1>4. CASE CheckPods
  BY <1>4 DEF CheckPods, Pass
<1>5. CASE PublishAccepted
  BY <1>5 DEF PublishAccepted, Pass
<1>6. CASE DecryptAuthToken
  <2>1. CASE (RequiresAuth(request) => Decrypts(request, keySet)) /\ Pass("decrypted")
    <3>1. keySet = TRUE => IsBlank(request.authToken)
      BY <2>1, DecryptedIsBlank
    <3>2. pc = "accepted" /\ UNCHANGED <<request, manifest, said>>
      BY <1>6, <2>1 DEF DecryptAuthToken, Check, Pass, Reject
    <3> QED
      BY <2>1, <3>1, <3>2 DEF Pass
  <2>2. CASE Reject("AuthDecrypt")
    BY <1>1, <2>2
  <2> QED
    BY <1>6, <2>1, <2>2 DEF DecryptAuthToken, Check
<1>7. CASE VerifyTarget
  <2>1. Validates(request) /\ request.scanner = Resolve(request.alias)
    BY <1>7, NormalizeNames DEF VerifyTarget
  <2>2. Verifies(request)
    BY <2>1, ValidatedVerifies
  <2>3. Pass("verified") /\ UNCHANGED <<request, manifest>> /\ pc = "decrypted"
    BY <1>7, <2>2 DEF VerifyTarget, Check
  <2> QED
    BY <2>3 DEF Pass
<1>8. CASE BuildScanManifest
  <2>1. CASE /\ HasTemplate(request.scanner) /\ Pass("built")
             /\ manifest' = BuildManifest(request)
    <3>1. pc = "verified" /\ request' = request
      BY <1>8 DEF BuildScanManifest
    <3>2. manifest'.credential \in {Empty, request.authToken}
      BY <2>1 DEF BuildManifest, Credential
    <3>3. keySet = TRUE => IsBlank(manifest'.credential)
      BY <3>1, <3>2 DEF IsBlank
    <3> QED
      BY <2>1, <3>1, <3>3 DEF Pass
  <2>2. CASE Reject("ManifestBuild")
    BY <1>1, <2>2
  <2> QED
    BY <1>8, <2>1, <2>2 DEF BuildScanManifest
<1>9. CASE PublishFailure
  BY <1>9 DEF PublishFailure, Pass
<1>10. CASE UNCHANGED vars
  BY <1>10 DEF vars
<1> QED
  BY <1>2, <1>3, <1>4, <1>5, <1>6, <1>7, <1>8, <1>9, <1>10 DEF Next

\* What is known of the request is always known.
LEMMA RulesInvariant == Spec => []RulesInv
  BY RulesInit, RulesStep, PTL DEF Spec

\* No request whose acceptance was announced is turned down by its verifier,
\* whatever its fields are.
THEOREM AcceptedRequestsVerify == Spec => []AcceptedTargetsVerify
<1>1. RulesInv => AcceptedTargetsVerify
  BY DEF RulesInv
<1> QED
  BY <1>1, RulesInvariant, PTL

\* Once a key is configured every token meets the decryptor, which refuses it: none
\* is in a manifest, whatever the request is.  Without a key a token passes as it came.
THEOREM TokensMeetDecryptor == Spec => []NoTokenBypassesDecryptor
<1>1. RulesInv => NoTokenBypassesDecryptor
  BY DEF RulesInv
<1> QED
  BY <1>1, RulesInvariant, PTL

-----------------------------------------------------------------------------
(***************************************************************************)
(* The aliases.                                                            *)
(***************************************************************************)

\* No two strategies are registered under one alias, so that Resolve finds the
\* one an alias belongs to.
LEMMA ResolveFinds ==
  ASSUME NEW s \in Strategies, NEW alias \in s.aliases
  PROVE  IsRegistered(alias) /\ Resolve(alias) = s.scanner
<1>1. IsRegistered(alias)
  BY DEF IsRegistered
<1>2. \A t \in Strategies : alias \in t.aliases => t.scanner = s.scanner
  BY DEF Strategies
<1>3. \E t \in Strategies : alias \in t.aliases
  OBVIOUS
<1> QED
  BY <1>1, <1>2, <1>3 DEF Resolve

\* The scanner of the name of a Scan resource is one of the names builders.go gives
\* to the scanner the registry resolves the same alias to.
Names(scanner) ==
  CASE scanner = "semgrep"     -> {"semgrep"}
    [] scanner = "gitleaks"    -> {"gitleaks"}
    [] scanner = "kics"        -> {"fs_iac", "fs_iac_commit", "kics"}
    [] scanner = "trivy-image" -> {"fs_image", "trivy-image"}

\* Each alias of a scanner with a template is given one of its names.
LEMMA NameOfScanner ==
  ASSUME NEW alias, IsRegistered(alias), HasTemplate(Resolve(alias))
  PROVE  NormalizeScannerName(alias) \in Names(Resolve(alias))
<1>1. PICK s \in Strategies : alias \in s.aliases
  BY DEF IsRegistered
<1>2. Resolve(alias) = s.scanner
  BY <1>1, ResolveFinds
<1>3. /\ s.scanner = "semgrep" => alias \in {"fs_code", "fs_code_commit", "semgrep"}
      /\ s.scanner = "gitleaks" => alias \in {"fs_secret", "fs_secret_commit", "gitleaks"}
      /\ s.scanner = "kics" => alias \in {"fs_iac", "fs_iac_commit", "kics"}
      /\ s.scanner = "trivy-image" => alias \in {"fs_image", "trivy-image"}
  BY <1>1 DEF Strategies
<1>4. s.scanner \in {"semgrep", "gitleaks", "kics", "trivy-image"}
  BY <1>2 DEF HasTemplate
<1>5. CASE s.scanner = "semgrep"
  BY <1>2, <1>3, <1>5 DEF NormalizeScannerName, Names
<1>6. CASE s.scanner = "gitleaks"
  BY <1>2, <1>3, <1>6 DEF NormalizeScannerName, Names
<1>7. CASE s.scanner = "kics"
  BY <1>2, <1>3, <1>7 DEF NormalizeScannerName, Names
<1>8. CASE s.scanner = "trivy-image"
  BY <1>2, <1>3, <1>8 DEF NormalizeScannerName, Names
<1> QED
  BY <1>4, <1>5, <1>6, <1>7, <1>8

\* Two requests compete for one Scan resource only if the registry sends both to
\* one scanner, whatever their ids and aliases are.
THEOREM ScannersHaveOwnNames == Spec => []NamesSeparateScanners
<1>1. RulesInv => NamesSeparateScanners
  <2> SUFFICES ASSUME RulesInv, pc = "built", NEW m \in Messages,
                      IsRegistered(m.scanner), HasTemplate(Resolve(m.scanner)),
                      BuildScanName(m.scanner, m.requestUUID) = manifest.name
               PROVE  Resolve(m.scanner) = request.scanner
    BY DEF NamesSeparateScanners
  <2>1. /\ IsRegistered(request.alias) /\ HasTemplate(request.scanner)
        /\ request.scanner = Resolve(request.alias)
        /\ manifest.name = BuildScanName(request.alias, request.requestUUID)
    BY NormalizeNames DEF RulesInv, BuildManifest
  <2>2. NormalizeScannerName(m.scanner) = NormalizeScannerName(request.alias)
    BY <2>1 DEF BuildScanName
  <2>3. /\ NormalizeScannerName(m.scanner) \in Names(Resolve(m.scanner))
        /\ NormalizeScannerName(request.alias) \in Names(Resolve(request.alias))
    BY <2>1, NameOfScanner
  <2>4. \A p, q \in {"gitleaks", "semgrep", "kics", "trivy-image"} :
           Names(p) \cap Names(q) # {} => p = q
    BY DEF Names
  <2> QED
    BY <2>1, <2>2, <2>3, <2>4 DEF HasTemplate
<1> QED
  BY <1>1, RulesInvariant, PTL

\* A manifest scans what the producer asked to be scanned, in the way the alias
\* stands for, whatever the fields of the request are.
THEOREM ManifestIsWhatWasAsked == Spec => []ScansWhatWasAsked
<1>1. RulesInv => ScansWhatWasAsked
  <2> SUFFICES ASSUME RulesInv, pc = "built" PROVE ScansWhatWasAsked
    BY DEF ScansWhatWasAsked
  <2>1. /\ request = Normalize(Decode(message)) /\ Validates(request)
        /\ IsRegistered(message.scanner)
        /\ request.alias = message.scanner
        /\ request.scanner = Resolve(message.scanner)
        /\ HasTemplate(request.scanner) /\ manifest = BuildManifest(request)
    BY NormalizeNames DEF RulesInv
  <2>2. request = [Decode(message) EXCEPT !.scanner = Resolve(message.scanner)]
    BY <2>1, NormalizeNames DEF HasTemplate
  <2>3. /\ request.repositoryURL = message.projectUri
        /\ request.imageRef = message.projectUri
        /\ request.baseCommit = message.commitId
    BY <2>2 DEF Decode
  <2>4. manifest.target = message.projectUri /\ ~IsBlank(message.projectUri)
    BY <2>1, <2>3 DEF BuildManifest, Validates, HasTemplate, URLScanners
  <2>5. /\ Resolve("fs_secret_commit") = "gitleaks"
        /\ Resolve("fs_code_commit") = "semgrep"
    BY ResolveFinds DEF Strategies
  <2>6. IsCommitScan(request) <=> message.scanner \in {"fs_code_commit", "fs_secret_commit"}
    BY <2>1, <2>5 DEF IsCommitScan
  <2>7. /\ manifest.commitScan = IsCommitScan(request)
        /\ manifest.baseline = IF IsCommitScan(request) THEN message.commitId ELSE Empty
    BY <2>1, <2>3 DEF BuildManifest
  <2>8. CASE IsCommitScan(request)
    BY <2>4, <2>6, <2>7, <2>8 DEF ScansWhatWasAsked
  <2>9. CASE ~IsCommitScan(request)
    <3>1. /\ manifest.commitScan = FALSE
          /\ (message.scanner \in {"fs_code_commit", "fs_secret_commit"}) = FALSE
      BY <2>6, <2>7, <2>9 DEF IsCommitScan
    <3> QED
      BY <2>4, <2>6, <2>7, <2>9, <3>1 DEF ScansWhatWasAsked
  <2> QED
    BY <2>8, <2>9
<1> QED
  BY <1>1, RulesInvariant, PTL

-----------------------------------------------------------------------------
(***************************************************************************)
(* The wired delivery and those ProcessScanRequest allows.                 *)
(***************************************************************************)

\* The state of the delivery alone, under the refinement mapping.
LEMMA OnlyFacts ==
  ASSUME NEW value, NEW next
  PROVE  /\ Only(value)["delivery"] = value
         /\ Only(next) = [Only(value) EXCEPT !["delivery"] = next]
  BY DEF Only

\* A call that publishes nothing is an answer of a port.
LEMMA CallIsAnswer ==
  ASSUME NEW from, NEW label, pc = from, pc' = label, UNCHANGED <<message, said>>
  PROVE  Delivery!Answer("delivery", from, label)
<1>1. Only(pc') = [Only(pc) EXCEPT !["delivery"] = label]
  BY OnlyFacts
<1> QED
  BY <1>1, OnlyFacts DEF Delivery!Answer, Delivery!Goto, Delivery!cluster, Delivery!events,
     Delivery!counters

\* A call that publishes an event puts it on both streams.
LEMMA CallPublishes ==
  ASSUME NEW from, NEW event, NEW label, pc = from, pc' = label,
         said' = Append(said, event), UNCHANGED message
  PROVE  Delivery!Publish("delivery", from, event, label)
<1>1. /\ Only(pc') = [Only(pc) EXCEPT !["delivery"] = label]
      /\ Only(said') = [Only(said) EXCEPT !["delivery"] = Append(Only(said)["delivery"], event)]
      /\ Only("delivery")["delivery"] = "delivery"
  BY OnlyFacts
<1>2. Delivery!Say("delivery", event)
  BY <1>1 DEF Delivery!Say
<1>3. Delivery!Goto("delivery", label)
  BY <1>1 DEF Delivery!Goto
<1> QED
  BY <1>2, <1>3, OnlyFacts DEF Delivery!Publish, Delivery!cluster

\* What ProcessScanRequest takes a request for, once Validate has seen it.
LEMMA KindOfRequest ==
  ASSUME NEW m
  PROVE  /\ Kind(m) \in {"unknown scanner", "invalid", "open", "private"}
         /\ Kind(m) \in {"open", "private"} <=>
              IsRegistered(m.scanner) /\ Validates(Normalize(Decode(m)))
         /\ IsRegistered(m.scanner) /\ Validates(Normalize(Decode(m)))
              /\ RequiresAuth(Normalize(Decode(m))) => Kind(m) = "private"
  BY DEF Kind

\* Each call of Execute is one that ProcessScanRequest allows for the kind of the
\* request.
LEMMA CallIsAllowed ==
  ASSUME RulesInv, Next
  PROVE  Delivery!Execute("delivery")
<1>k. /\ Only(Kind(message))[Only("delivery")["delivery"]] = Kind(message)
      /\ Decode(message).alias = message.scanner
      /\ Normalize(Decode(message)).alias = message.scanner
  BY OnlyFacts, NormalizeNames DEF Decode
<1>1. ASSUME pc = "delivered", UNCHANGED <<message, said>>,
             pc' = IF Kind(message) \in {"open", "private"} THEN "resolved" ELSE "failing"
      PROVE  Delivery!Admit("delivery")
  BY <1>1, <1>k, CallIsAnswer DEF Delivery!Admit
<1>2. CASE ResolveScanner
  <2>1. /\ pc = "delivered" /\ pc' = "failing" /\ UNCHANGED <<message, said>>
        /\ ~IsRegistered(message.scanner)
    BY <1>2, <1>k DEF ResolveScanner, Reject, RulesInv
  <2> QED
    BY <1>1, <2>1, KindOfRequest DEF Delivery!Execute
<1>3. CASE NormalizeAndValidate
  <2>1. /\ pc = "delivered" /\ UNCHANGED <<message, said>>
        /\ request' = Normalize(Decode(message)) /\ IsRegistered(message.scanner)
        /\ \/ Validates(request') /\ pc' = "resolved"
           \/ ~Validates(request') /\ pc' = "failing"
    BY <1>3, <1>k DEF NormalizeAndValidate, Check, Pass, Reject, RulesInv
  <2> QED
    BY <1>1, <2>1, KindOfRequest DEF Delivery!Execute
<1>4. CASE CheckPods
  BY <1>4, CallIsAnswer DEF CheckPods, Pass, Delivery!CheckPods, Delivery!Execute
<1>5. CASE PublishAccepted
  BY <1>5, CallPublishes DEF PublishAccepted, Pass, Delivery!PublishAccepted, Delivery!Execute
<1>6. CASE DecryptAuthToken
  <2>1. CASE Pass("decrypted")
    BY <1>6, <2>1, CallIsAnswer
       DEF DecryptAuthToken, Check, Pass, Reject, Delivery!Decrypt, Delivery!Execute
  <2>2. CASE Reject("AuthDecrypt") /\ RequiresAuth(request)
    <3>1. IsRegistered(message.scanner) /\ request = Normalize(Decode(message))
          /\ Validates(request)
      BY <1>6, <1>k DEF DecryptAuthToken, RulesInv, Validated
    <3>2. Kind(message) = "private"
      BY <2>2, <3>1, KindOfRequest
    <3> QED
      BY <1>6, <1>k, <2>2, <3>2, CallIsAnswer
         DEF DecryptAuthToken, Reject, Delivery!Decrypt, Delivery!Execute
  <2> QED
    BY <1>6, <2>1, <2>2 DEF DecryptAuthToken, Check
<1>7. CASE VerifyTarget
  BY <1>7, CallIsAnswer
     DEF VerifyTarget, Check, Pass, Reject, Delivery!Verify, Delivery!Execute
<1>8. CASE BuildScanManifest
  BY <1>8, CallIsAnswer
     DEF BuildScanManifest, Pass, Reject, Delivery!Build, Delivery!Execute
<1>9. CASE PublishFailure
  BY <1>9, CallPublishes DEF PublishFailure, Pass, Delivery!PublishFailure, Delivery!Execute
<1> QED
  BY <1>2, <1>3, <1>4, <1>5, <1>6, <1>7, <1>8, <1>9 DEF Next

\* The wired delivery goes the ways ProcessScanRequest allows for the kind of its
\* request, and speaks in their order, whatever the request is and however often
\* its collaborators look at it.
THEOREM WiredDeliveryImplements == Spec => DeliveryImplements
<1>1. Init => Delivery!Init
  <2> SUFFICES ASSUME Init PROVE Delivery!Init
    OBVIOUS
  <2>1. Only(Kind(message)) \in [{"delivery"} -> Delivery!Kinds]
    BY KindOfRequest DEF Only, Delivery!Kinds
  <2> QED
    BY <2>1 DEF Init, Only, Delivery!Init
<1>2. RulesInv /\ [Next]_vars => [Delivery!Next]_Delivery!vars
  <2>1. ASSUME UNCHANGED vars PROVE UNCHANGED Delivery!vars
    BY <2>1 DEF vars, Delivery!vars, Delivery!cluster, Delivery!events, Delivery!counters
  <2> QED
    BY <2>1, CallIsAllowed DEF Delivery!Next
<1> QED
  BY <1>1, <1>2, RulesInvariant, PTL DEF Spec, DeliveryImplements, Delivery!Spec

=============================================================================
