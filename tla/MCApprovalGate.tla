---------------------------- MODULE MCApprovalGate ----------------------------
EXTENDS ApprovalGate
=============================================================================
