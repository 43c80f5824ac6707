-------------------------- MODULE MCDeviceRegistry --------------------------
EXTENDS DeviceRegistry, TLC

\* No action tells the devices or the requests apart.
Symmetry == Permutations(Devices) \cup Permutations(Requests)
=============================================================================
