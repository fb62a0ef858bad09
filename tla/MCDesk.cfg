SPECIFICATION Spec
CONSTANTS
    Ids = {"e1", "e2"}
    Credentials = {"c1"}
    Named = {"bbs"}
    Groups = {"g"}
    Editable = {"CloseTab"}
    Directories <- SomeDirectories
    MaxChanges = 3
INVARIANTS OneOnTop DirectoryDurable RecordedOnce DefaultFollows KeyStored
PROPERTY EndsRecorded
CHECK_DEADLOCK FALSE
