CONSTANTS
    r1 = r1
    r2 = r2
    Receivers <- MCReceivers
    \* A ring of one value and three joining peers: a slow subscriber is
    \* overrun (Lagged) while another keeps up, and a subscriber may join
    \* after the first PeerAdded was handled.
    Cap = 1
    MaxPeers = 3
SPECIFICATION Spec
PROPERTY PeerNoticed
