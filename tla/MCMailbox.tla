------------------------------ MODULE MCMailbox -------------------------------
EXTENDS Mailbox
===============================================================================
