---------------------------- MODULE MCDelivery ----------------------------
EXTENDS Delivery
===========================================================================
