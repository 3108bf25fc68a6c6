SPECIFICATION Spec
CONSTANTS
    groq = groq
    openai = openai
    oss = oss
    gpt = gpt
    u1 = u1
    u2 = u2
    main = main
    Procs = {p}
    Requests = {r1, r2}
    Users = {u1, u2}
    Admins = {u1}
    Vendors = {groq, openai}
    Providers = {groq, openai}
    Models = {oss, gpt}
    OfferedBy <- MCOfferedBy
    Tuned = {ft}
    FineTuner = openai
    ServerKeys = {groq}
    Boot <- MCBoot
    Depths = {1, 2, 3}
    Urls = {main, other}
    MaxEdits = 3
    NoUser = nouser
    NoProc = noproc
    NoKey = nokey
    NoChoice = nochoice
    Server = server
SYMMETRY Symmetric
INVARIANTS OneChoice CopiesAgree UrlFollows
