SPECIFICATION Spec
CONSTANTS
    None = None
    ann = ann  boss = boss  cat = cat  root = root
    store = store  legal = legal  site = site
    Form <- AllForms
    annPadded = annPadded  bossPadded = bossPadded  blank = blank
    Padded <- PaddedIds
    Line <- SomeLines
    Cc = {{}, {cat, bossPadded}}
    People <- SomePeople
    Asker = {ann, annPadded}
    Executor = cat
    Store = store
    Imports = {None, "pending"}
    MaxRounds = 2
CHECK_DEADLOCK FALSE
INVARIANTS
    DecidersWereAsked
    FieldsFollowSchema
    RequesterFindsDocument
    DocumentRightsNest
