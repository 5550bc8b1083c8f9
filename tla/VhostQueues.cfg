SPECIFICATION Spec
CONSTANTS
    hiprio = hiprio  requests = requests  h1 = h1  h2 = h2
    NoQueue = NoQueue
    Queues <- MCQueues
    Heads <- MCHeads
    Modulus = 3
    Setups <- MCSetups
INVARIANTS EachOnce NoLostKick NoLostInterrupt
PROPERTY Answered
