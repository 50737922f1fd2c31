SPECIFICATION FileSpec
CONSTANTS
    ip = ip
    port = port
    app = app
    site = site
    star1 = star1
    star2 = star2
    IPs = {ip}
    Ports = {port}
    Apps = {app}
    Domains = {site}
    Patterns = {star1, star2}
    Matches <- Names
    MaxPatterns = 2
    MaxEdits = 3
INVARIANTS
    FileTypeOK
    SavedFaithfully
    RestoredExactly
CHECK_DEADLOCK FALSE
