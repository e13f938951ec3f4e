-------------------------- MODULE MCDevicePollers ---------------------------
EXTENDS DevicePollers

\* Device 1 has two contexts, device 2 has one.
MCDeviceOf == [c \in Contexts |-> IF c = 3 THEN 2 ELSE 1]
=============================================================================
