SPECIFICATION Spec
CONSTANTS
  Rmc = Rmc
  Vdm = Vdm
  Sentence = {Rmc, Vdm}
  Ais = {Vdm}
  Din = Din
  N2kMsg = N2kMsg
  NoFilter = NoFilter
  Gateway = Gateway
  Settings <- MCSettings
  Builds <- MCBuilds
  TcpClients = {5, 6}
  TaskId = 200
  Slow = {5}
  MaxInputs = 2
INVARIANTS
  TypeOK
  NoEcho
  AtMostOnce
PROPERTIES
  IsRouter
