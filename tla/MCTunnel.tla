------------------------------ MODULE MCTunnel ------------------------------
EXTENDS Tunnel
=============================================================================
