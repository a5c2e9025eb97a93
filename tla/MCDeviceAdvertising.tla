------------------------- MODULE MCDeviceAdvertising -------------------------
\* Values of the constants of DeviceAdvertising.
EXTENDS DeviceAdvertising

MCVersions == {"flags", "name"}
MCResponses == {"response"}
=============================================================================
