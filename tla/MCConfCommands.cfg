SPECIFICATION Spec
CONSTANTS
  Buses = {"UART", "I2C", "SPI"}
  Codes = {0, 1, 2, 11, 20}
  Flows = {0, 1, 2}
  MaxCmds = 3
PROPERTIES SuccessMeansAgreement ReissueAgrees
