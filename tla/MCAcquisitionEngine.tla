------------------------- MODULE MCAcquisitionEngine -------------------------
EXTENDS AcquisitionEngine
==============================================================================
