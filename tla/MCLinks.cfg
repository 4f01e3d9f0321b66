CONSTANTS
    client = client  other = other  middle = middle  server = server
    here = here  there = there
    Actors = {client, middle, server}
    Localities = {here, there}
    Home <- ServerApart
    Wants <- Triangle
    Strict <- ToMiddle
    Quitters = {client, server}
    Hasty = {client, server}
    Interceptors = {client}
    Holders = {client}
    LinkExpires <- ToMiddle
    UnlinkExpires <- FirstClient
SPECIFICATION Spec
INVARIANT OperationalOnlyIsKept
PROPERTY ImplementsLinks
CHECK_DEADLOCK FALSE
