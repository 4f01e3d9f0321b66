CONSTANTS
    client = client  other = other  middle = middle  server = server
    here = here  there = there
    Actors = {client, other, server}
    Localities = {here, there}
    Home <- ServerApart
    Wants <- TwoClients
    Strict <- NoLinks
    Quitters = {client, other, server}
    Hasty = {}
    Interceptors = {client}
    Holders = {client, server}
    LinkExpires <- NoLinks
    UnlinkExpires <- NoLinks
SPECIFICATION FairSpec
INVARIANT NoAssertionFails
PROPERTIES ShutdownCompletes LostServerEndsClient
CHECK_DEADLOCK FALSE
