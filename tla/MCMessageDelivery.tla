----------------------- MODULE MCMessageDelivery --------------------------
EXTENDS MessageDelivery
===========================================================================
