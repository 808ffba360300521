SPECIFICATION Spec
CONSTANTS
    Agents = {1, 2, 3}
    User = User
    Workflow = Workflow
    Broadcast = Broadcast
    m1 = m1
    m2 = m2
    m3 = m3
    m4 = m4
    k1 = k1
    k3 = k3
    k4 = k4
    NoId = NoId
    Ids = {m1, m2, m3, m4}
    Keys = {k1, k3, k4}
    Sender <- MCSender
    Recipient <- MCRecipient
    Key <- MCKey
    QueueLimit = 2
    MessageLimit = 2
INVARIANTS
    AcceptedOncePerKey
    AcceptedReachesRecipient
    DirectFifo
