CONSTANTS
  Slaves = {sensor, nobody}
  DEFAULT_ADDR = sensor
  Words <- OneWord
  Temps <- AroundZero
SPECIFICATION I2cSpec
PROPERTY TemperatureIsClose
