CONSTANTS
    Main = main
    Worker = worker
    Callbacks = {c}
    Nobody = nobody
SPECIFICATION Spec
INVARIANTS NoCircularWait UpOrNothing ChainsGoOn StillSubscribed SignalsStayInMain
PROPERTIES OthersGoOn DeinitReturns EjectsOnceUp
