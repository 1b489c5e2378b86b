----------------------------- MODULE MCPreparation -----------------------------
EXTENDS Preparation
=============================================================================
