\* One message, two service nodes.
CONSTANTS
    p1 = p1
    p2 = p2
    a = a
    m1 = m1
    c1 = c1
    c2 = c2
    Peers <- TwoPeers
    Topics <- OneTopic
    Messages <- OneMessage
    TopicOf <- TopicA
    Calls <- TwoCalls
SPECIFICATION Spec
PROPERTIES
    PushedIsDelivered
CHECK_DEADLOCK FALSE
