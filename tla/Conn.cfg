\* Two writers and the goroutine that closes; any number of writes.
CONSTANTS
    Writers = {w1, w2}
    Main = main
    NoOne = noone
SPECIFICATION FairSpec
PROPERTIES
    FramesContiguous
    CloseCompletes
    WritesReturn
