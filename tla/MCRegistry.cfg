CONSTANTS
    first = first  second = second  third = third
    mail = mail  web = web  here = here  there = there
    Actors = {first, second, third}
    Names = {mail, web}
    NoOne = NoOne
    Localities = {here, there}
    ClientsHome = here
    RegistryHome = there
    Registers <- Offers
    Discovers <- Needs
    Promises <- Awaits
    Quitters = {first, third}
    Hasty = {}
    Served = {first}
    Manual = {second}
    Expires <- FirstLink
SPECIFICATION FairSpec
INVARIANTS MapsAgree NoPromiseIsMissed
PROPERTIES NamesAreKept NamesAreReturned PromisesAreCancelled FoundInTheEnd
CHECK_DEADLOCK FALSE
