-------------------------- MODULE ScanRequestRules --------------------------
(***************************************************************************)
(* The rules the request pipeline applies to the fields of one request:    *)
(* the mapper, the scanner registry, ScanRequest.Validate, the token       *)
(* decryptor, the wired verifiers and the manifest builders.               *)
(*                                                                         *)
(* A scanner alias is written in lower case and without surrounding space: *)
(* every use in the code trims it and folds its case.  Of the other texts  *)
(* the rules tell apart the empty one, the blank ones and the rest.        *)
(***************************************************************************)

Empty == ""
Blank == " "

\* strings.TrimSpace(text) == ""
IsBlank(text) == text \in {Empty, Blank}

RepositoryScanners == {"semgrep", "gitleaks", "kics"}
ImageScanners      == {"trivy-image"}
URLScanners        == {"nuclei"}

SupportedProjectTypes == {"GITHUB", "GITHUB_SERVER", "GITLAB", "GITLAB_SERVER"}

\* DecodeScanRequest: projectUri is both the repository and the image.
Decode(message) ==
    [requestUUID   |-> message.requestUUID,
     alias         |-> message.scanner,
     scanner       |-> Empty,
     projectType   |-> message.projectType,
     repositoryURL |-> message.projectUri,
     imageRef      |-> message.projectUri,
     targetURL     |-> message.targetUrl,
     authToken     |-> message.authToken,
     baseCommit    |-> message.commitId]

-----------------------------------------------------------------------------
\* DefaultRegistry: the strategies by the aliases they are registered under.
Strategies ==
    {[scanner |-> "semgrep",
      aliases |-> {"fs_code", "fs_code_commit", "semgrep"}],
     [scanner |-> "gitleaks",
      aliases |-> {"fs_secret", "fs_secret_commit", "gitleaks"}],
     [scanner |-> "kics",
      aliases |-> {"fs_iac", "fs_iac_commit", "kics"}],
     [scanner |-> "trivy-image",
      aliases |-> {"fs_image", "trivy-image"}],
     [scanner |-> "nuclei",
      aliases |-> {"fs_dast", "dast_web", "dast_nuclei", "nuclei"}]}

IsRegistered(alias) == \E s \in Strategies : alias \in s.aliases

\* The scanner of the strategy Resolve returns for a registered alias.
Resolve(alias) == (CHOOSE s \in Strategies : alias \in s.aliases).scanner

\* Normalize; only the nuclei strategy has more to do than to name the scanner.
Normalize(request) ==
    LET named == [request EXCEPT !.scanner = Resolve(request.alias)] IN
    IF named.scanner = "nuclei" /\ named.targetURL = Empty
    THEN [named EXCEPT !.targetURL = named.repositoryURL, !.repositoryURL = Empty]
    ELSE named

Validates(request) ==
    /\ ~IsBlank(request.requestUUID)
    /\ ~IsBlank(request.alias)
    /\ \/ /\ request.scanner \in RepositoryScanners
          /\ ~IsBlank(request.repositoryURL)
          /\ request.projectType \in SupportedProjectTypes
       \/ request.scanner \in ImageScanners /\ ~IsBlank(request.imageRef)
       \/ request.scanner \in URLScanners /\ ~IsBlank(request.targetURL)

\* RequiresAuth with an image strategy that leaves requiresAuth unset.
RequiresAuthExceptImages(request) ==
    \/ request.scanner \in RepositoryScanners
    \/ request.scanner = "nuclei" /\ ~IsBlank(request.authToken)

RequiresAuth(request) ==
    request.scanner # "nuclei" \/ ~IsBlank(request.authToken)

\* AESDecryptor has no decryption yet: with a key every token is an error, and
\* without one the token is passed on.  DecryptAuthTokenService skips a blank one.
Decrypts(request, keySet) == IsBlank(request.authToken) \/ ~keySet

\* VerifyURL that looks at the field the target was sent in.
VerifiesSentTarget(request) ==
    LET scanner == Resolve(request.alias) IN
    \/ scanner \in RepositoryScanners \cup URLScanners /\ ~IsBlank(request.repositoryURL)
    \/ scanner \in ImageScanners /\ ~IsBlank(request.imageRef)

\* VerifyTargetService picks the verifier by the strategy's mode; each of the
\* wired ones looks at the one field of the target that is its own.
Verifies(request) ==
    LET scanner == Resolve(request.alias) IN
    \/ scanner \in RepositoryScanners /\ ~IsBlank(request.repositoryURL)
    \/ scanner \in ImageScanners /\ ~IsBlank(request.imageRef)
    \/ scanner \in URLScanners /\ ~IsBlank(request.targetURL)

VerificationError(request) ==
    LET scanner == Resolve(request.alias) IN
    CASE scanner \in RepositoryScanners -> "RepositoryLookup"
      [] scanner \in ImageScanners      -> "ImageLookup"
      [] scanner \in URLScanners        -> "URLVerification"

-----------------------------------------------------------------------------
HasTemplate(scanner) == scanner \in {"gitleaks", "semgrep", "kics", "trivy-image"}

\* normalizeScannerName that knows one more name for gitleaks.
NormalizeScannerNameTooWide(alias) ==
    CASE alias \in {"fs_secret", "fs_secret_commit", "fs_code_commit"} -> "gitleaks"
      [] alias = "fs_code" -> "semgrep"
      [] alias = "image"   -> "trivy"
      [] alias = "iac"     -> "kics"
      [] OTHER             -> alias

NormalizeScannerName(alias) ==
    CASE alias \in {"fs_secret", "fs_secret_commit"} -> "gitleaks"
      [] alias \in {"fs_code", "fs_code_commit"}     -> "semgrep"
      [] alias = "image"                             -> "trivy"
      [] alias = "iac"                               -> "kics"
      [] OTHER                                       -> alias

\* The name of the Scan resource, <scanner>-scan-<id>.
BuildScanName(alias, id) == [scanner |-> NormalizeScannerName(alias), id |-> id]

\* A commit scan by the commit of the request, as the input of Registry has it.
IsCommitScanByCommit(request) == ~IsBlank(request.baseCommit)

\* The template scans a commit and not the branch: each builder decides by the
\* alias.  Without a commit it still does, with an empty baseline.
IsCommitScan(request) ==
    \/ request.scanner = "gitleaks" /\ request.alias = "fs_secret_commit"
    \/ request.scanner = "semgrep" /\ request.alias = "fs_code_commit"

\* The texts with a colon, which stand for a user and a password.
IsPair(token) == token = "user:password"

\* What the templates hand to the clone or to the registry.  The token is escaped
\* for the one and split for the other, which keep it blank or not; a token that
\* is no pair does not reach the image scanner.
Credential(request) ==
    IF request.scanner = "trivy-image" /\ ~IsPair(request.authToken)
    THEN Empty
    ELSE request.authToken

\* What RenderManifest puts into the template of the scanner; the rest is copied.
BuildManifest(request) ==
    [name       |-> BuildScanName(request.alias, request.requestUUID),
     target     |-> IF request.scanner = "trivy-image" THEN request.imageRef
                                                       ELSE request.repositoryURL,
     credential |-> Credential(request),
     commitScan |-> IsCommitScan(request),
     baseline   |-> IF IsCommitScan(request) THEN request.baseCommit ELSE Empty]

=============================================================================
