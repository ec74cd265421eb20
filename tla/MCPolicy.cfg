SPECIFICATION Spec
CONSTANTS
    Handlers = {h1, h2}
    Domains <- MCDomains
    RuleDomains <- MCRuleDomains
    ListNames = {"shipped", "second", "mine"}
    Manifest <- MCManifest
    Sources = {"u", "v", "w"}
    Url <- MCUrl
    Content <- MCContent
    Edits <- MCEdits
    Docs <- MCDocs
    None = None
    Versions <- MCVersions
    MaxId = 3
    MaxOps = 2
INVARIANTS FilterObeyed TagDescribesBody BuiltinsKept
CHECK_DEADLOCK FALSE
SYMMETRY Symm
