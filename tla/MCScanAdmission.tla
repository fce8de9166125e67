--------------------------- MODULE MCScanAdmission ---------------------------
(***************************************************************************)
(* All the requests ScanAdmission can tell apart.                          *)
(***************************************************************************)
EXTENDS ScanAdmission

\* Every registered alias, the two only builders.go knows, an unknown and none.
AllAliases ==
    UNION {s.aliases : s \in Strategies} \cup {"image", "iac", "unregistered", Empty}

AllMessages ==
    [requestUUID : {Blank, "u1"},
     scanner     : AllAliases,
     projectUri  : {Empty, Blank, "uri"},
     targetUrl   : {Empty, Blank, "url"},
     projectType : {"GITHUB", "SVN"},
     authToken   : {Empty, "user:password", "token"},
     commitId    : {Empty, "commit"}]

=============================================================================
