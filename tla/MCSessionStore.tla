---------------------------- MODULE MCSessionStore ----------------------------
EXTENDS SessionStore
===============================================================================
